---- MODULE Spec2Model ----
(***************************************************************************)
(* A model of the RESP key-value server with single-leader replication:    *)
(* the frame codec (frame.rs), the connection's read path (connection.rs), *)
(* the command layer (command/*.rs), the store with expiry (store.rs), the *)
(* leader fan-out (publisher.rs) and the per-connection handler            *)
(* (server.rs).                                                            *)
(*                                                                         *)
(* Bytes are one-character strings, byte strings are sequences of them.    *)
(***************************************************************************)
EXTENDS Integers, Sequences, FiniteSets, TLC

\* ------------------------------------------------------------------------
\* Bytes and decimal text
\* ------------------------------------------------------------------------

CR == "\r"

LF == "\n"

CRLF == <<CR, LF>>

Digits == <<"0", "1", "2", "3", "4", "5", "6", "7", "8", "9">>

IsDigit(b) == \E i \in 1..10 : Digits[i] = b

DigitVal(b) == (CHOOSE i \in 1..10 : Digits[i] = b) - 1

UpperCase == <<"A","B","C","D","E","F","G","H","I","J","K","L","M",
               "N","O","P","Q","R","S","T","U","V","W","X","Y","Z">>

LowerCase == <<"a","b","c","d","e","f","g","h","i","j","k","l","m",
               "n","o","p","q","r","s","t","u","v","w","x","y","z">>

\* str::to_lowercase / str::to_uppercase on ASCII text
to_lowercase(s) ==
    [i \in 1..Len(s) |->
        IF \E j \in 1..26 : UpperCase[j] = s[i]
        THEN LowerCase[CHOOSE j \in 1..26 : UpperCase[j] = s[i]]
        ELSE s[i]]

to_uppercase(s) ==
    [i \in 1..Len(s) |->
        IF \E j \in 1..26 : LowerCase[j] = s[i]
        THEN UpperCase[CHOOSE j \in 1..26 : LowerCase[j] = s[i]]
        ELSE s[i]]

\* u64::to_string / write!(buf, "{}", val)
RECURSIVE to_string(_)
to_string(n) ==
    IF n < 10 THEN <<Digits[n + 1]>>
    ELSE to_string(n \div 10) \o <<Digits[(n % 10) + 1]>>

\* The absent integer (Option::None of a u64)
NoInt == -1

\* atoi::atoi::<u64>: the value of the leading decimal digits, None when the
\* text does not start with a digit
RECURSIVE atoi_acc(_, _, _)
atoi_acc(line, i, acc) ==
    IF i <= Len(line) /\ IsDigit(line[i])
    THEN atoi_acc(line, i + 1, acc * 10 + DigitVal(line[i]))
    ELSE [used |-> i - 1, n |-> acc]

atoi(line) ==
    LET r == atoi_acc(line, 1, 0)
    IN  IF r.used = 0 THEN NoInt ELSE r.n

\* ------------------------------------------------------------------------
\* Frames (frame.rs)
\* ------------------------------------------------------------------------

Simple(s) == [t |-> "Simple", v |-> s]

Error(s) == [t |-> "Error", v |-> s]

Integer(n) == [t |-> "Integer", v |-> to_string(n)]

Bulk(b) == [t |-> "Bulk", v |-> b]

Null == [t |-> "Null", v |-> <<>>]

OK == [t |-> "OK", v |-> <<>>]

Array(fs) == [t |-> "Array", v |-> fs]

RdbFile(b) == [t |-> "RdbFile", v |-> b]

\* Results of the cursor operations: Ok with the new position (and a value),
\* Err(Incomplete), Err(Other)
Incomplete == [r |-> "incomplete"]

ProtocolError == [r |-> "error"]

\* A step and what follows it: v is worked out once and F goes on with the
\* value (let x = v?; ...)
Then(v, F(_)) == CHOOSE y \in {F(x) : x \in {v}} : TRUE

\* get_line, the scan: the index of the first CR LF at or after index i, 0
\* when there is none (the loop looks at every index but the last)
RECURSIVE find_crlf(_, _)
find_crlf(buf, i) ==
    IF i >= Len(buf) THEN 0
    ELSE IF buf[i] = CR /\ buf[i + 1] = LF THEN i
    ELSE find_crlf(buf, i + 1)

\* get_line: the line that ends at the first CR LF at or after the cursor
get_line(buf, p) ==
    LET i == find_crlf(buf, p + 1)
    IN  IF i = 0 THEN Incomplete
        ELSE [r |-> "ok", pos |-> i + 1, line |-> SubSeq(buf, p + 1, i - 1)]

\* get_decimal: a line read as an unsigned decimal
get_decimal(buf, p) ==
    Then(get_line(buf, p), LAMBDA l :
        IF l.r # "ok" THEN l
        ELSE IF atoi(l.line) = NoInt THEN ProtocolError
        ELSE [r |-> "ok", pos |-> l.pos, n |-> atoi(l.line)])

\* skip: advance the cursor by n bytes
skip(buf, p, n) ==
    IF Len(buf) - p < n THEN Incomplete ELSE [r |-> "ok", pos |-> p + n]

\* Frame::check: can one whole frame be decoded from the cursor on?
RECURSIVE check(_, _)
RECURSIVE check_entries(_, _, _)
check(buf, p) ==
    IF p >= Len(buf) THEN Incomplete
    ELSE LET b == buf[p + 1]
             q == p + 1
         IN  CASE b \in {"+", "-"} ->
                    LET l == get_line(buf, q)
                    IN  IF l.r = "ok" THEN [r |-> "ok", pos |-> l.pos] ELSE l
               [] b = ":" ->
                    LET d == get_decimal(buf, q)
                    IN  IF d.r = "ok" THEN [r |-> "ok", pos |-> d.pos] ELSE d
               [] b = "$" ->
                    IF q >= Len(buf) THEN Incomplete
                    ELSE IF buf[q + 1] = "-" THEN skip(buf, q, 4)
                    ELSE Then(get_decimal(buf, q), LAMBDA d :
                             IF d.r # "ok" THEN d
                             ELSE LET s == skip(buf, d.pos, d.n)
                                  IN  IF s.r # "ok" THEN Incomplete
                                      ELSE IF s.pos < Len(buf) /\ buf[s.pos + 1] = CR
                                           THEN skip(buf, s.pos, 2)
                                           ELSE s)
               [] b = "*" ->
                    Then(get_decimal(buf, q), LAMBDA d :
                        IF d.r # "ok" THEN d ELSE check_entries(buf, d.pos, d.n))
               [] OTHER -> ProtocolError

check_entries(buf, p, n) ==
    IF n = 0 THEN [r |-> "ok", pos |-> p]
    ELSE Then(check(buf, p), LAMBDA c :
             IF c.r # "ok" THEN c ELSE check_entries(buf, c.pos, n - 1))

\* Frame::parse: decode the frame `check` has validated
RECURSIVE parse(_, _)
RECURSIVE parse_entries(_, _, _, _)
parse(buf, p) ==
    IF p >= Len(buf) THEN Incomplete
    ELSE LET b == buf[p + 1]
             q == p + 1
         IN  CASE b = "+" ->
                    LET l == get_line(buf, q)
                    IN  IF l.r = "ok"
                        THEN [r |-> "ok", pos |-> l.pos, frame |-> Simple(l.line)]
                        ELSE l
               [] b = "-" ->
                    LET l == get_line(buf, q)
                    IN  IF l.r = "ok"
                        THEN [r |-> "ok", pos |-> l.pos, frame |-> Error(l.line)]
                        ELSE l
               [] b = ":" ->
                    LET d == get_decimal(buf, q)
                    IN  IF d.r = "ok"
                        THEN [r |-> "ok", pos |-> d.pos, frame |-> Integer(d.n)]
                        ELSE d
               [] b = "$" ->
                    IF q >= Len(buf) THEN Incomplete
                    ELSE IF buf[q + 1] = "-"
                    THEN LET l == get_line(buf, q)
                         IN  IF l.r # "ok" THEN l
                             ELSE IF l.line # <<"-", "1">> THEN ProtocolError
                             ELSE [r |-> "ok", pos |-> l.pos, frame |-> Null]
                    ELSE Then(get_decimal(buf, q), LAMBDA d :
                             IF d.r # "ok" THEN d
                             ELSE LET s == skip(buf, d.pos, d.n)
                                  IN  IF s.r # "ok" THEN s
                                      ELSE LET data == SubSeq(buf, d.pos + 1, d.pos + d.n)
                                               e == IF s.pos < Len(buf) /\ buf[s.pos + 1] = CR
                                                    THEN skip(buf, s.pos, 2)
                                                    ELSE s
                                           IN  IF e.r # "ok" THEN e
                                               ELSE [r |-> "ok", pos |-> e.pos,
                                                     frame |-> Bulk(data)])
               [] b = "*" ->
                    Then(get_decimal(buf, q), LAMBDA d :
                        IF d.r # "ok" THEN d
                        ELSE parse_entries(buf, d.pos, d.n, <<>>))
               [] OTHER -> ProtocolError

parse_entries(buf, p, n, acc) ==
    IF n = 0 THEN [r |-> "ok", pos |-> p, frame |-> Array(acc)]
    ELSE Then(parse(buf, p), LAMBDA f :
             IF f.r # "ok" THEN f
             ELSE Then(Append(acc, f.frame), LAMBDA more :
                      parse_entries(buf, f.pos, n - 1, more)))

\* ------------------------------------------------------------------------
\* Connection (connection.rs)
\* ------------------------------------------------------------------------

\* Connection::parse_frame that leaves the frame it returns in the buffer
parse_frame_keep(buf) ==
    Then(check(buf, 0), LAMBDA c :
        CASE c.r = "ok" ->
               Then(parse(buf, 0), LAMBDA f :
                   IF f.r = "ok"
                   THEN [r |-> "frame", frame |-> f.frame, buffer |-> buf]
                   ELSE [r |-> "error"])
          [] c.r = "incomplete" -> [r |-> "none"]
          [] OTHER -> [r |-> "error"])

\* Connection::parse_frame that drops two more bytes behind every Bulk, as
\* if each bulk had its CR LF
parse_frame_eating(buf) ==
    Then(check(buf, 0), LAMBDA c :
        CASE c.r = "ok" ->
               Then(parse(buf, 0), LAMBDA f :
                   IF f.r = "ok"
                   THEN [r |-> "frame", frame |-> f.frame,
                         buffer |-> IF f.frame.t = "Bulk" /\ buf[c.pos] # LF
                                    THEN SubSeq(buf, c.pos + 3, Len(buf))
                                    ELSE SubSeq(buf, c.pos + 1, Len(buf))]
                   ELSE [r |-> "error"])
          [] c.r = "incomplete" -> [r |-> "none"]
          [] OTHER -> [r |-> "error"])

\* Connection::parse_frame on the connection buffer: a frame and the buffer
\* advanced past it, nothing yet (Ok(None)), or an error
parse_frame(buf) ==
    Then(check(buf, 0), LAMBDA c :
        CASE c.r = "ok" ->
               Then(parse(buf, 0), LAMBDA f :
                   IF f.r = "ok"
                   THEN [r |-> "frame", frame |-> f.frame,
                         buffer |-> SubSeq(buf, c.pos + 1, Len(buf))]
                   ELSE [r |-> "error"])
          [] c.r = "incomplete" -> [r |-> "none"]
          [] OTHER -> [r |-> "error"])

\* Connection::write_decimal: the decimal digits of val and CR LF
write_decimal(val) == to_string(val) \o CRLF

\* What a write leaves in the BufWriter, or the panic of unreachable!()
Panic == [r |-> "panic"]

\* Connection::write_value: the bytes of a frame that is no array
write_value(frame) ==
    CASE frame.t = "Simple" -> [r |-> "ok", bytes |-> <<"+">> \o frame.v \o CRLF]
      [] frame.t = "Error" -> [r |-> "ok", bytes |-> <<"-">> \o frame.v \o CRLF]
      [] frame.t = "Integer" -> [r |-> "ok", bytes |-> <<":">> \o write_decimal(atoi(frame.v))]
      [] frame.t = "Null" -> [r |-> "ok", bytes |-> <<"$", "-", "1">> \o CRLF]
      [] frame.t = "OK" -> [r |-> "ok", bytes |-> <<"+", "O", "K">> \o CRLF]
      [] frame.t = "Bulk" ->
            [r |-> "ok", bytes |-> <<"$">> \o write_decimal(Len(frame.v)) \o frame.v \o CRLF]
      [] frame.t = "RdbFile" ->
            [r |-> "ok", bytes |-> <<"$">> \o write_decimal(Len(frame.v)) \o frame.v]
      [] frame.t = "Array" -> Panic

\* write_frame, the loop over the entries of an array: write_value on each
RECURSIVE write_entries(_, _, _)
write_entries(entries, i, acc) ==
    IF i > Len(entries) THEN [r |-> "ok", bytes |-> acc]
    ELSE Then(write_value(entries[i]), LAMBDA w :
             IF w.r # "ok" THEN w
             ELSE write_entries(entries, i + 1, acc \o w.bytes))

\* Connection::write_frame: the bytes flushed to the peer; nothing is
\* flushed when write_value panics
write_frame(frame) ==
    IF frame.t = "Array"
    THEN write_entries(frame.v, 1, <<"*">> \o write_decimal(Len(frame.v)))
    ELSE write_value(frame)

\* array_of_bulks!: the bytes of a client command
RECURSIVE bulks_bytes(_)
bulks_bytes(args) ==
    IF args = <<>> THEN <<>>
    ELSE <<"$">> \o to_string(Len(Head(args))) \o CRLF \o Head(args) \o CRLF
         \o bulks_bytes(Tail(args))

array_of_bulks(args) == <<"*">> \o to_string(Len(args)) \o CRLF \o bulks_bytes(args)

\* ------------------------------------------------------------------------
\* Parse: the cursor over the elements of an Array frame (module parse)
\* ------------------------------------------------------------------------

CmdError == [r |-> "error"]

\* Parse::next_string: the next element as text; an error at the end of the
\* array or on an element that is neither Simple nor Bulk (the element is
\* consumed either way)
next_string(parts) ==
    IF parts = <<>> THEN [r |-> "end", rest |-> parts]
    ELSE IF Head(parts).t \in {"Simple", "Bulk"}
         THEN [r |-> "ok", s |-> Head(parts).v, rest |-> Tail(parts)]
         ELSE [r |-> "error", rest |-> Tail(parts)]

\* Parse::next_bytes reads the same elements as next_string
next_bytes(parts) == next_string(parts)

\* Parse::next_int: the next element as an unsigned decimal
next_int(parts) ==
    IF parts = <<>> THEN [r |-> "end", rest |-> parts]
    ELSE IF Head(parts).t \in {"Integer", "Simple", "Bulk"} /\ atoi(Head(parts).v) # NoInt
         THEN [r |-> "ok", n |-> atoi(Head(parts).v), rest |-> Tail(parts)]
         ELSE [r |-> "error", rest |-> Tail(parts)]

\* Parse::finish: an error when elements are left
finish(parts) == parts = <<>>

\* ------------------------------------------------------------------------
\* Commands (command/*.rs)
\* ------------------------------------------------------------------------

\* The text literals the commands compare with and answer
S_ping == <<"p", "i", "n", "g">>

S_echo == <<"e", "c", "h", "o">>

S_get == <<"g", "e", "t">>

S_set == <<"s", "e", "t">>

S_info == <<"i", "n", "f", "o">>

S_replconf == <<"r", "e", "p", "l", "c", "o", "n", "f">>

S_psync == <<"p", "s", "y", "n", "c">>

S_PX == <<"P", "X">>

S_PONG == <<"P", "O", "N", "G">>

S_listening_port == <<"l","i","s","t","e","n","i","n","g","-","p","o","r","t">>

S_capa == <<"c", "a", "p", "a">>

S_getack == <<"g", "e", "t", "a", "c", "k">>

\* Ping::parse_frames
Ping_parse_frames(parts) ==
    LET m == next_bytes(parts)
    IN  CASE m.r = "ok" -> [r |-> "ok", cmd |-> [name |-> "ping", has_msg |-> TRUE, msg |-> m.s], rest |-> m.rest]
          [] m.r = "end" -> [r |-> "ok", cmd |-> [name |-> "ping", has_msg |-> FALSE, msg |-> <<>>], rest |-> m.rest]
          [] OTHER -> CmdError

\* Echo::parse_frames
Echo_parse_frames(parts) ==
    LET m == next_string(parts)
    IN  IF m.r = "ok"
        THEN [r |-> "ok", cmd |-> [name |-> "echo", msg |-> m.s], rest |-> m.rest]
        ELSE CmdError

\* Get::parse_frames
Get_parse_frames(parts) ==
    LET m == next_string(parts)
    IN  IF m.r = "ok"
        THEN [r |-> "ok", cmd |-> [name |-> "get", key |-> m.s], rest |-> m.rest]
        ELSE CmdError

\* Set::parse_frames: key, value, and PX <ms> when the third argument is PX in
\* any case; a third argument that is anything else is read and dropped
Set_parse_frames(parts) ==
    LET k == next_string(parts)
    IN  IF k.r # "ok" THEN CmdError
        ELSE LET v == next_string(k.rest)
             IN  IF v.r # "ok" THEN CmdError
                 ELSE LET o == next_string(v.rest)
                      IN  IF o.r = "ok" /\ to_uppercase(o.s) = S_PX
                          THEN LET n == next_int(o.rest)
                               IN  IF n.r # "ok" THEN CmdError
                                   ELSE [r |-> "ok",
                                         cmd |-> [name |-> "set", key |-> k.s,
                                                  value |-> v.s, expiry |-> n.n],
                                         rest |-> n.rest]
                          ELSE [r |-> "ok",
                                cmd |-> [name |-> "set", key |-> k.s,
                                         value |-> v.s, expiry |-> NoInt],
                                rest |-> o.rest]

\* command::info::Info::parse_frames
Info_parse_frames(parts) ==
    LET m == next_string(parts)
    IN  IF m.r = "ok"
        THEN [r |-> "ok", cmd |-> [name |-> "info", kind |-> m.s], rest |-> m.rest]
        ELSE CmdError

\* str::parse::<u16> of a port
parse_u16(s) ==
    IF s # <<>> /\ (\A i \in 1..Len(s) : IsDigit(s[i])) /\ Len(s) <= 5 /\ atoi(s) <= 65535
    THEN atoi(s) ELSE NoInt

\* ReplConf::parse_frames: option/value pairs until next_string fails; getack
\* is whether a GETACK option was given
RECURSIVE ReplConf_parse_frames(_, _)
ReplConf_parse_frames(parts, getack) ==
    LET a == next_string(parts)
    IN  IF a.r # "ok"
        THEN [r |-> "ok", cmd |-> [name |-> "replconf", getack_option |-> getack],
              rest |-> a.rest]
        ELSE LET opt == to_lowercase(a.s)
                 val == next_string(a.rest)
             IN  CASE opt = S_listening_port ->
                        IF val.r # "ok" \/ parse_u16(val.s) = NoInt THEN CmdError
                        ELSE ReplConf_parse_frames(val.rest, getack)
                   [] opt = S_capa ->
                        IF val.r # "ok" THEN CmdError
                        ELSE ReplConf_parse_frames(val.rest, getack)
                   [] opt = S_getack ->
                        IF val.r # "ok" THEN CmdError
                        ELSE ReplConf_parse_frames(val.rest, TRUE)
                   [] OTHER -> CmdError

\* Psync::parse_frames
Psync_parse_frames(parts) ==
    LET i == next_string(parts)
    IN  IF i.r # "ok" THEN CmdError
        ELSE LET o == next_string(i.rest)
             IN  IF o.r # "ok" THEN CmdError
                 ELSE [r |-> "ok", cmd |-> [name |-> "psync", master_replid |-> i.s],
                       rest |-> o.rest]

\* Command::from_frame
from_frame(frame) ==
    IF frame.t # "Array" THEN CmdError
    ELSE LET n == next_string(frame.v)
         IN  IF n.r # "ok" THEN CmdError
             ELSE LET command_name == to_lowercase(n.s)
                      c == CASE command_name = S_ping -> Ping_parse_frames(n.rest)
                             [] command_name = S_echo -> Echo_parse_frames(n.rest)
                             [] command_name = S_get -> Get_parse_frames(n.rest)
                             [] command_name = S_set -> Set_parse_frames(n.rest)
                             [] command_name = S_info -> Info_parse_frames(n.rest)
                             [] command_name = S_replconf ->
                                    ReplConf_parse_frames(n.rest, FALSE)
                             [] command_name = S_psync -> Psync_parse_frames(n.rest)
                             [] OTHER ->
                                    [r |-> "ok",
                                     cmd |-> [name |-> "unknown",
                                              command_name |-> command_name],
                                     rest |-> <<>>]
                  IN  IF c.r # "ok" THEN CmdError
                      ELSE IF ~finish(c.rest) THEN CmdError
                      ELSE [r |-> "ok", cmd |-> c.cmd]

\* ------------------------------------------------------------------------
\* Store (store.rs)
\* ------------------------------------------------------------------------

\* pub const DEFAULT_EXPIRY: u64 = 1000 * 60 * 60 * 24 * 7
DEFAULT_EXPIRY == 604800000

\* std::time::Duration as whole seconds and the milliseconds below a second;
\* an Instant is the Duration since the server started
from_millis(ms) == [secs |-> ms \div 1000, ms |-> ms % 1000]

from_secs(s) == [secs |-> s, ms |-> 0]

\* Instant + Duration
instant_add(i, d) ==
    [secs |-> i.secs + d.secs + ((i.ms + d.ms) \div 1000), ms |-> (i.ms + d.ms) % 1000]

\* Instant < Instant
instant_lt(a, b) == a.secs < b.secs \/ (a.secs = b.secs /\ a.ms < b.ms)

\* Store::new: the empty map
Store_new == <<>>

\* HashMap::remove
map_remove(data, key) == [k \in DOMAIN data \ {key} |-> data[k]]

\* An insert that gives an existing entry the new value and leaves it its
\* old expiry
Store_set_keeping(data, key, value, expiry_duration, t) ==
    [k \in DOMAIN data \cup {key} |->
        IF k = key
        THEN [value |-> value,
              expiry |-> IF key \in DOMAIN data THEN data[key].expiry
                         ELSE instant_add(t, expiry_duration)]
        ELSE data[k]]

\* Store::set at instant t
Store_set(data, key, value, expiry_duration, t) ==
    [k \in DOMAIN data \cup {key} |->
        IF k = key THEN [value |-> value, expiry |-> instant_add(t, expiry_duration)]
        ELSE data[k]]

\* Store::set_with_default_expiry at instant t
Store_set_with_default_expiry(data, key, value, t) ==
    Store_set(data, key, value, from_secs(DEFAULT_EXPIRY), t)

\* A read that never looks at the expiry
Store_get_unexpiring(data, key, t) ==
    IF key \in DOMAIN data
    THEN [found |-> TRUE, value |-> data[key].value, data |-> data]
    ELSE [found |-> FALSE, value |-> <<>>, data |-> data]

\* A read that, when it finds its entry expired, removes every expired entry
Store_get_sweeping(data, key, t) ==
    IF key \in DOMAIN data
    THEN IF instant_lt(t, data[key].expiry)
         THEN [found |-> TRUE, value |-> data[key].value, data |-> data]
         ELSE [found |-> FALSE, value |-> <<>>,
               data |-> [k \in {x \in DOMAIN data : instant_lt(t, data[x].expiry)} |->
                           data[k]]]
    ELSE [found |-> FALSE, value |-> <<>>, data |-> data]

\* Store::get at instant t: the value of a live entry; an expired entry is
\* removed
Store_get(data, key, t) ==
    IF key \in DOMAIN data
    THEN IF instant_lt(t, data[key].expiry)
         THEN [found |-> TRUE, value |-> data[key].value, data |-> data]
         ELSE [found |-> FALSE, value |-> <<>>, data |-> map_remove(data, key)]
    ELSE [found |-> FALSE, value |-> <<>>, data |-> data]

\* Store::del
Store_del(data, key) == map_remove(data, key)

\* The map with absolute expiry: a set records the value, the instant of the
\* set and the time to live; a del forgets the key; a get changes nothing
\* and finds the value while now < (time of the set) + ttl
Model_set(m, key, value, expiry_duration, t) ==
    [k \in DOMAIN m \cup {key} |->
        IF k = key THEN [value |-> value, at |-> t, ttl |-> expiry_duration] ELSE m[k]]

Model_del(m, key) == [k \in DOMAIN m \ {key} |-> m[k]]

Model_get(m, key, t) ==
    IF key \in DOMAIN m /\ instant_lt(t, instant_add(m[key].at, m[key].ttl))
    THEN [found |-> TRUE, value |-> m[key].value]
    ELSE [found |-> FALSE, value |-> <<>>]

\* Store::as_rdb: the snapshot blob, opaque to whoever receives it
as_rdb(data) == <<"R", "D", "B">>

\* ------------------------------------------------------------------------
\* Info (info.rs)
\* ------------------------------------------------------------------------

DEFAULT_ROLE == <<"m", "a", "s", "t", "e", "r">>

DEFAULT_HOST == <<"1", "2", "7", ".", "0", ".", "0", ".", "1">>

S_slave == <<"s", "l", "a", "v", "e">>

\* info::DEFAULT_MASTER_REPLID, the identifier a leader starts with
DEFAULT_MASTER_REPLID == <<"8", "3", "7", "1", "b", "4", "f", "b", "1", "1", "5", "5", "b", "7", "1", "f", "4", "a", "0", "4", "d", "3", "e", "1", "b", "c", "3", "e", "1", "8", "c", "4", "a", "9", "9", "0", "a", "e", "e", "b">>

K_SELF_HOST == <<"I", "N", "F", "O", ":", "S", "E", "L", "F", "_", "H", "O", "S", "T">>

K_SELF_PORT == <<"I", "N", "F", "O", ":", "S", "E", "L", "F", "_", "P", "O", "R", "T">>

K_ROLE == <<"I", "N", "F", "O", ":", "R", "E", "P", "L", "I", "C", "A", "T", "I", "O", "N", ":", "R", "O", "L", "E">>

K_OF_HOST == <<"I", "N", "F", "O", ":", "R", "E", "P", "L", "I", "C", "A", "T", "I", "O", "N", ":", "R", "E", "P", "L", "I", "C", "A", "T", "I", "O", "N", "_", "O", "F", "_", "H", "O", "S", "T">>

K_OF_PORT == <<"I", "N", "F", "O", ":", "R", "E", "P", "L", "I", "C", "A", "T", "I", "O", "N", ":", "R", "E", "P", "L", "I", "C", "A", "T", "I", "O", "N", "_", "O", "F", "_", "P", "O", "R", "T">>

\* const DEFAULT_PORT: u16 = 6379
DEFAULT_PORT == 6379

\* Info::write at instant t: host, port and role always, the leader's address
\* when the server is a replica
Info_write(data, role, t) ==
    LET d1 == Store_set_with_default_expiry(data, K_SELF_HOST, DEFAULT_HOST, t)
        d2 == Store_set_with_default_expiry(d1, K_SELF_PORT, <<"6", "3", "7", "9">>, t)
        d3 == Store_set_with_default_expiry(d2, K_ROLE, role, t)
        d4 == Store_set_with_default_expiry(d3, K_OF_HOST, DEFAULT_HOST, t)
        d5 == Store_set_with_default_expiry(d4, K_OF_PORT, <<"6", "3", "8", "0">>, t)
    IN  IF role = S_slave THEN d5 ELSE d3

\* Info::from_store at instant t: five reads of the store, each of which may
\* remove an expired entry; an error when a stored port is no u16
Info_from_store(data, t) ==
    LET g1 == Store_get(data, K_SELF_HOST, t)
        g2 == Store_get(g1.data, K_SELF_PORT, t)
        g3 == Store_get(g2.data, K_ROLE, t)
        g4 == Store_get(g3.data, K_OF_HOST, t)
        g5 == Store_get(g4.data, K_OF_PORT, t)
    IN  IF g2.found /\ parse_u16(g2.value) = NoInt
        THEN [r |-> "error", data |-> g2.data]
        ELSE IF g5.found /\ parse_u16(g5.value) = NoInt
        THEN [r |-> "error", data |-> g5.data]
        ELSE [r |-> "ok", data |-> g5.data,
              self_port |-> IF g2.found THEN parse_u16(g2.value) ELSE DEFAULT_PORT,
              role |-> IF g3.found THEN g3.value ELSE DEFAULT_ROLE]

\* Info::is_replica
is_replica(info) == info.role = S_slave

\* ------------------------------------------------------------------------
\* Command::apply for the commands that only answer
\* ------------------------------------------------------------------------

\* Ping::apply
Ping_apply(cmd) == IF cmd.has_msg THEN Bulk(cmd.msg) ELSE Simple(S_PONG)

\* Echo::apply
Echo_apply(cmd) == Bulk(cmd.msg)

\* Unknown::apply that answers with a Simple frame
Unknown_apply_simple(cmd) == Simple(<<"E", "R", "R", " ", "u", "n", "k", "n", "o", "w", "n", " ", "c", "o", "m", "m", "a", "n", "d", " ", "'">> \o cmd.command_name \o <<"'">>)

\* Unknown::apply
Unknown_apply(cmd) == Error(<<"E", "R", "R", " ", "u", "n", "k", "n", "o", "w", "n", " ", "c", "o", "m", "m", "a", "n", "d", " ", "'">> \o cmd.command_name \o <<"'">>)

\* ReplConf::apply
ReplConf_apply(cmd) ==
    IF cmd.getack_option
    THEN Array(<<Bulk(<<"R", "E", "P", "L", "C", "O", "N", "F">>), Bulk(<<"A", "C", "K">>), Bulk(<<"0">>)>>)
    ELSE OK

\* An INFO that answers every role as a leader does
Info_apply_master(info) ==
    [r |-> "ok",
     frame |-> Bulk(<<"r", "o", "l", "e", ":", "m", "a", "s", "t", "e", "r">> \o CRLF \o <<"m", "a", "s", "t", "e", "r", "_", "r", "e", "p", "l", "i", "d", ":">>
                    \o DEFAULT_MASTER_REPLID \o CRLF
                    \o <<"m", "a", "s", "t", "e", "r", "_", "r", "e", "p", "l", "_", "o", "f", "f", "s", "e", "t", ":", "0">> \o CRLF)]

\* command::info::Info::apply, given the Info read from the store
Info_apply(info) ==
    CASE info.role = DEFAULT_ROLE ->
           [r |-> "ok",
            frame |-> Bulk(<<"r", "o", "l", "e", ":", "m", "a", "s", "t", "e", "r">> \o CRLF \o <<"m", "a", "s", "t", "e", "r", "_", "r", "e", "p", "l", "i", "d", ":">>
                           \o DEFAULT_MASTER_REPLID \o CRLF
                           \o <<"m", "a", "s", "t", "e", "r", "_", "r", "e", "p", "l", "_", "o", "f", "f", "s", "e", "t", ":", "0">> \o CRLF)]
      [] info.role = S_slave -> [r |-> "ok", frame |-> Bulk(<<"r", "o", "l", "e", ":", "s", "l", "a", "v", "e">>)]
      [] OTHER -> [r |-> "error"]

\* The answer of a command that only answers, and the store after it (INFO
\* reads the store)
Reply(cmd, data, t) ==
    CASE cmd.name = "ping" -> [r |-> "ok", frame |-> Ping_apply(cmd), data |-> data]
      [] cmd.name = "echo" -> [r |-> "ok", frame |-> Echo_apply(cmd), data |-> data]
      [] cmd.name = "unknown" -> [r |-> "ok", frame |-> Unknown_apply(cmd), data |-> data]
      [] cmd.name = "replconf" -> [r |-> "ok", frame |-> ReplConf_apply(cmd), data |-> data]
      [] cmd.name = "info" ->
           LET info == Info_from_store(data, t)
           IN  IF info.r # "ok" THEN [r |-> "error", data |-> info.data]
               ELSE IF Info_apply(info).r # "ok" THEN [r |-> "error", data |-> info.data]
               ELSE [r |-> "ok", frame |-> Info_apply(info).frame, data |-> info.data]

\* Get::apply: the answer and the store after the read
Get_apply(cmd, data, t) ==
    LET g == Store_get(data, cmd.key, t)
    IN  [frame |-> IF g.found THEN Bulk(g.value) ELSE Null, data |-> g.data]

\* A time to live that forgets the default: unwrap_or(0)
Set_ttl_zero(cmd) == IF cmd.expiry = NoInt THEN 0 ELSE cmd.expiry

\* Set::apply, the time to live: let ttl = self.expiry.unwrap_or(DEFAULT_EXPIRY)
Set_ttl(cmd) == IF cmd.expiry = NoInt THEN DEFAULT_EXPIRY ELSE cmd.expiry

\* Whether Set::apply answers on a connection: not on the one a follower
\* holds to its leader
Set_respond(is_follower_receiving_sync_request) == ~is_follower_receiving_sync_request

\* Set::apply that answers whatever respond says
Set_reply_always(respond) == <<OK>>

\* Set::apply, the answer: if respond { dst.write_frame(&Frame::OK) } else { Ok(()) }
Set_reply(respond) == IF respond THEN <<OK>> ELSE <<>>

\* publish: the frame that replays a SET to the followers
publish_frame_of(cmd) ==
    Array(<<Bulk(S_set), Bulk(cmd.key), Bulk(cmd.value)>>
          \o (IF cmd.expiry = NoInt THEN <<>>
              ELSE <<Bulk(S_PX), Bulk(to_string(cmd.expiry))>>))

\* Psync::apply on a leader: the two frames it writes
Psync_frames(data) ==
    <<Simple(<<"F", "U", "L", "L", "R", "E", "S", "Y", "N", "C", " ">> \o DEFAULT_MASTER_REPLID \o <<" ", "0">>), RdbFile(as_rdb(data))>>

\* Psync::apply on a replica: the refusal
Psync_refusal == Error(<<"N", "o", "t", " ", "a", " ", "m", "a", "s", "t", "e", "r", " ", "s", "e", "r", "v", "e", "r">>)

\* ------------------------------------------------------------------------
\* What the peers send
\* ------------------------------------------------------------------------

M_SET == array_of_bulks(<<<<"S", "E", "T">>, <<"k">>, <<"v">>>>)

M_SET_PX == array_of_bulks(<<<<"s", "e", "t">>, <<"k">>, <<"w">>, <<"p", "x">>, <<"2">>>>)

M_GET == array_of_bulks(<<<<"G", "E", "T">>, <<"k">>>>)

M_PING == array_of_bulks(<<<<"P", "I", "N", "G">>>>)

M_PSYNC == array_of_bulks(<<<<"P", "S", "Y", "N", "C">>, <<"?">>, <<"-", "1">>>>)

\* Well-framed arrays that are no command: wrong arity, a PX that is no
\* integer, an unknown REPLCONF option, a first element that is no bulk
B_ARITY == array_of_bulks(<<<<"G", "E", "T">>>>)

B_PX == array_of_bulks(<<<<"S", "E", "T">>, <<"k">>, <<"v">>, <<"P", "X">>, <<"x">>>>)

B_OPTION == array_of_bulks(<<<<"R", "E", "P", "L", "C", "O", "N", "F">>, <<"f", "o", "o">>>>)

B_FIRST == <<"*", "1">> \o CRLF \o <<":", "1">> \o CRLF

\* Malformed framing: an invalid type byte, a length that is no number, a
\* negative bulk length other than -1
X_TYPE == <<"!">> \o CRLF

X_LEN == <<"$", "x">> \o CRLF

X_NEG == <<"$", "-", "2">> \o CRLF

\* Commands the server does not know, with arguments and without
U_FOO == array_of_bulks(<<<<"F", "o", "O">>, <<"h", "i">>, <<"k">>>>)

U_PINGS == array_of_bulks(<<<<"P", "I", "N", "G", "S">>>>)

Commands == {M_SET, M_SET_PX, M_GET, M_PING, M_PSYNC}

\* Commands a client sends one behind the other without waiting for an answer
M_ECHO == array_of_bulks(<<<<"e", "c", "h", "o">>, <<"h", "i">>>>)

M_INFO == array_of_bulks(<<<<"I", "N", "F", "O">>, <<"r", "e", "p", "l", "i", "c", "a", "t", "i", "o", "n">>>>)

\* A SET with a third argument that is not PX, and a SET of the key that
\* holds the server's role
M_SET_NX == array_of_bulks(<<<<"S", "E", "T">>, <<"k">>, <<"n">>, <<"N", "X">>>>)

M_SET_ROLE == array_of_bulks(<<<<"S", "E", "T">>, K_ROLE, S_slave>>)

M_INFO_ALL == array_of_bulks(<<<<"i", "n", "f", "o">>, <<"a", "l", "l">>>>)

PipelineCommands ==
    {M_PING, M_ECHO, M_INFO, M_INFO_ALL, M_GET, M_SET, M_SET_NX, M_SET_ROLE, U_FOO}

\* Two commands written one behind the other
PipelinePairs == {m1 \o m2 : m1 \in PipelineCommands, m2 \in PipelineCommands}

\* Commands with an element behind their own arguments
E_GET == array_of_bulks(<<<<"G", "E", "T">>, <<"k">>, <<"x">>>>)

E_ECHO == array_of_bulks(<<<<"E", "C", "H", "O">>, <<"h", "i">>, <<"x">>>>)

E_SET_PX == array_of_bulks(<<<<"S", "E", "T">>, <<"k">>, <<"n">>, <<"p", "x">>, <<"2">>, <<"x">>>>)

ExtraCommands == {E_GET, E_ECHO, E_SET_PX, M_SET_NX}

\* The beginnings of a SET that stop short of its last byte
PartialFrames == {SubSeq(M_SET, 1, n) : n \in 1..(Len(M_SET) - 1)}

UnknownCommands == {U_FOO, U_PINGS}

BadCommands == {B_ARITY, B_PX, B_OPTION, B_FIRST}

Malformed == {X_TYPE, X_LEN, X_NEG}

\* ------------------------------------------------------------------------
\* The server: one handler task per connection (server.rs), the follower
\* registry (publisher.rs), the shared store and the clock
\* ------------------------------------------------------------------------

\* The connections the server has accepted
Conns == {"c1", "c2", "c3"}

\* Frames each peer sends at most
MaxCmds == 2

\* Milliseconds the clock runs
MaxTime == 3

\* No task holds the registry lock
NoConn == "nobody"

VARIABLES
    store,        \* Store.data: key -> [value, expiry]
    now,          \* milliseconds since the server started
    subscribers,  \* SUBSCRIBERS: the registry, a sequence of connections
    lock,         \* the task that holds the SUBSCRIBERS mutex, or NoConn
    pc,           \* where each connection's handler is in Handler::run
    buffer,       \* Connection.buffer: bytes received and not yet parsed
    alive,        \* the peer has not closed the connection
    out,          \* the frames written to each connection, with their writer
    cur,          \* the SET a handler is applying, with its fan-out position
    sent,         \* how many frames each peer has sent
    nread,        \* how many read_frame calls of each handler have returned
    lastSet,      \* per connection: its last SET, and whether it is still
                  \* the last write to its key
    lastGet,      \* per connection: its last GET, its answer, and the SET it
                  \* followed
    everSet,      \* the keys that were ever written
    applyOrder,   \* the SETs in the order of their store.set
    delivered,    \* per follower: the SETs whose frames were written to it
    pub,          \* per connection: how its last publish call went
    failedWrites  \* the connections on which a write of the publisher failed

\* The connection a reader holds to a peer that writes frames to it: the
\* follower's connection to its leader (replicator.rs), or any Connection
\* whose read_frame is called in a loop
VARIABLES
    wire,         \* the bytes the peer has written and read_buf has not yet returned
    peerOpen,     \* the peer has not closed its end
    rbuf,         \* Connection.buffer of the reader
    rpc,          \* where the reader is: in Replicator::run_replication, or in a
                  \* plain read_frame loop
    rsent,        \* the frames the reader has written to the peer, with their writer
    got,          \* the frames read_frame has returned, in order
    trip,         \* the last frame the peer gave to write_frame, and what came of it
    rlog          \* what the replicator did with the frames it read

\* The locks tasks hold between two of their steps
VARIABLES
    data_guard,   \* the task that holds the MutexGuard of Store.data, or NoConn
    writing       \* per connection: the task that is inside write_frame on it
                  \* with the frame partly flushed, or NoConn

\* The map with absolute expiry the Store is compared with
VARIABLES
    absMap        \* key -> [value, at, ttl] of the last set on the key, with no
                  \* del on the key after it

linkVars == <<wire, peerOpen, rbuf, rpc, rsent, got, trip, rlog>>

mutexVars == <<data_guard, writing>>

\* The server without the link
serverVars == <<store, now, subscribers, lock, pc, buffer, alive, out, cur, sent, nread,
                lastSet, lastGet, everSet, applyOrder, delivered, pub, failedWrites,
                data_guard, writing, absMap>>

vars == <<store, now, subscribers, lock, pc, buffer, alive, out, cur, sent, nread,
          lastSet, lastGet, everSet, applyOrder, delivered, pub, failedWrites,
          wire, peerOpen, rbuf, rpc, rsent, got, trip, rlog, data_guard, writing,
          absMap>>

handlerVars == <<pc, buffer, out, cur, nread>>

ghostVars == <<lastSet, lastGet, everSet, applyOrder, delivered, pub, failedWrites>>

\* Instant::now()
Instant_now == from_millis(now)

Range(s) == {s[i] : i \in 1..Len(s)}

NoSet == [valid |-> FALSE]

NoGet == [valid |-> FALSE]

NoPub == [state |-> "none"]

NoCmd == [name |-> "none"]

\* The peer has written no frame yet
NoTrip == [valid |-> FALSE, n |-> 0]

\* The replicator has applied nothing and has not read the snapshot; odd is
\* whether the loop has gone round without a frame an odd number of times
NoLog == [snapshot |-> FALSE, applied |-> <<>>, nreadAtEnd |-> <<>>, odd |-> FALSE]

\* The handler has returned: with an error, at end of input, or after it
\* handed the connection to the publisher
Terminal == {"failed", "done", "promoted"}

\* The roles a server starts in
Roles == {DEFAULT_ROLE, S_slave}

\* The server has started in the given role: Info::write has filled the store
InitServer(role) ==
    /\ store = Info_write(Store_new, role, from_millis(0))
    /\ now = 0
    /\ subscribers = <<>>
    /\ lock = NoConn
    /\ pc = [c \in Conns |-> "read"]
    /\ buffer = [c \in Conns |-> <<>>]
    /\ alive = [c \in Conns |-> TRUE]
    /\ out = [c \in Conns |-> <<>>]
    /\ cur = [c \in Conns |-> NoCmd]
    /\ sent = [c \in Conns |-> 0]
    /\ nread = [c \in Conns |-> 0]
    /\ lastSet = [c \in Conns |-> NoSet]
    /\ lastGet = [c \in Conns |-> NoGet]
    /\ everSet = DOMAIN store
    /\ applyOrder = <<>>
    /\ delivered = [c \in Conns |-> <<>>]
    /\ pub = [c \in Conns |-> NoPub]
    /\ failedWrites = {}
    /\ data_guard = NoConn
    /\ writing = [c \in Conns |-> NoConn]
    /\ absMap = [k \in DOMAIN store |->
                   [value |-> store[k].value, at |-> from_millis(0),
                    ttl |-> from_secs(DEFAULT_EXPIRY)]]

\* A connection on which nothing was written or read yet, and its reader
InitLink(reader) ==
    /\ wire = <<>>
    /\ peerOpen = TRUE
    /\ rbuf = <<>>
    /\ rpc = reader
    /\ rsent = <<>>
    /\ got = <<>>
    /\ trip = NoTrip
    /\ rlog = NoLog

\* setup_subscriber: a replica starts its replicator
InitAs(role) ==
    /\ InitServer(role)
    /\ InitLink(IF role = S_slave THEN "connect" ELSE "idle")

Init == \E role \in Roles : InitAs(role)

\* A server started as leader
InitLeader == InitAs(DEFAULT_ROLE)

\* One turn of Handler::run up to the command: read_frame's parse_frame on
\* the buffer and, when it yields a frame, Command::from_frame on that frame
Decode(buf) ==
    Then(parse_frame(buf), LAMBDA pf :
        IF pf.r = "frame"
        THEN [r |-> "frame", frame |-> pf.frame, buffer |-> pf.buffer,
              command |-> from_frame(pf.frame)]
        ELSE [r |-> pf.r])

\* Decode on each byte string of a set, as a table
tabulate(S) == [m \in S |-> Decode(m)] @@ <<>>

\* Decode on the byte strings the peers send, worked out once
DecodedInputs ==
    tabulate(Commands \cup UnknownCommands \cup BadCommands \cup Malformed
             \cup PipelineCommands \cup PipelinePairs \cup ExtraCommands
             \cup PartialFrames)

\* Decode of the byte string b, from the table when b is one of its inputs
Decoded(table, b) == IF b \in DOMAIN table THEN table[b] ELSE Decode(b)

\* What the handler of c finds in its buffer
Pending(c) == Decoded(DecodedInputs, buffer[c])

\* The command of the frame a handler is about to read
PendingCommand(c) == Pending(c).command

\* The decoded buffer p holds the frame of a command called `name`
HoldsCommand(p, name) ==
    /\ p.r = "frame"
    /\ p.command.r = "ok"
    /\ p.command.cmd.name = name

\* A handler that reads only while the replicator has not failed
Reads_replicating(c, name) ==
    /\ rpc # "failed"
    /\ pc[c] = "read"
    /\ HoldsCommand(Pending(c), name)

\* The handler of c is in read_frame and the buffer holds the frame of a
\* command called `name`
Reads(c, name) ==
    /\ pc[c] = "read"
    /\ HoldsCommand(Pending(c), name)

\* write_frame on connection c: it fails when the peer has closed
WriteOk(c) == alive[c]

\* A write_frame that puts every frame on the connection twice
Written_twice(c, frames, by) ==
    [out EXCEPT ![c] = @ \o [i \in 1..(2 * Len(frames)) |->
                               [f |-> frames[((i - 1) % Len(frames)) + 1], by |-> by]]]

\* write_frame on connection c, once for each of the frames: they are added
\* to what the peer receives, in order
Written(c, frames, by) ==
    [out EXCEPT ![c] = @ \o [i \in 1..Len(frames) |-> [f |-> frames[i], by |-> by]]]

\* A guard that is still held when the Store method has returned
MutexGuard_kept(task) == task

\* Store::set, get and del: `data`, the MutexGuard, is a local of the method
\* and is dropped when it returns; the mutex is free again
MutexGuard_drop(task) == NoConn

\* A task calls methods of the Store within one of its steps: each takes
\* self.data.lock().unwrap(), which waits while another task holds the guard
Store_locked(task) ==
    /\ data_guard = NoConn
    /\ data_guard' = MutexGuard_drop(task)

\* A peer sends the bytes of one frame
Send(c, m) ==
    /\ alive[c]
    /\ pc[c] \notin Terminal
    /\ sent[c] < MaxCmds
    /\ buffer[c] = <<>>
    /\ buffer' = [buffer EXCEPT ![c] = @ \o m]
    /\ sent' = [sent EXCEPT ![c] = @ + 1]
    /\ UNCHANGED <<store, now, subscribers, lock, pc, alive, out, cur, nread>>
    /\ UNCHANGED ghostVars
    /\ UNCHANGED linkVars
    /\ UNCHANGED absMap
    /\ UNCHANGED mutexVars

\* A client sends SET, SET with PX, or GET
SendStoreCommand(c) == \E m \in {M_SET, M_SET_PX, M_GET} : Send(c, m)

\* The first client sends a SET
SendSet(c) == Send(c, M_SET)

\* A second client sends one SET, of another value and with PX
SendOtherSet(c) == sent[c] = 0 /\ Send(c, M_SET_PX)

\* A replica sends PSYNC
SendPsync(c) == Send(c, M_PSYNC)

\* A client sends any command but PSYNC
SendCommand(c) == \E m \in Commands \ {M_PSYNC} : Send(c, m)

\* A client sends a command the server does not know
SendUnknown(c) == \E m \in UnknownCommands : Send(c, m)

\* A client sends a command with one element too many
SendExtra(c) == \E m \in ExtraCommands : Send(c, m)

\* A client sends the beginning of a command and no more
SendPartial(c) == \E m \in PartialFrames : Send(c, m)

\* A client sends a well-framed array that is no command
SendBadCommand(c) == \E m \in BadCommands : Send(c, m)

\* A client sends bytes that are no frame
SendMalformed(c) == \E m \in Malformed : Send(c, m)

\* The peer closes the connection
PeerClose(c) ==
    /\ alive[c]
    /\ alive' = [alive EXCEPT ![c] = FALSE]
    /\ UNCHANGED <<store, now, subscribers, lock, sent>>
    /\ UNCHANGED handlerVars
    /\ UNCHANGED ghostVars
    /\ UNCHANGED linkVars
    /\ UNCHANGED absMap
    /\ UNCHANGED mutexVars

\* A millisecond passes
Tick ==
    /\ now < MaxTime
    /\ now' = now + 1
    /\ UNCHANGED <<store, subscribers, lock, alive, sent>>
    /\ UNCHANGED handlerVars
    /\ UNCHANGED ghostVars
    /\ UNCHANGED linkVars
    /\ UNCHANGED absMap
    /\ UNCHANGED mutexVars

\* Handler::run, read_frame fails: Frame::check or Frame::parse reports a
\* protocol error and `?` returns it
HandleProtocolError(c) ==
    /\ pc[c] = "read"
    /\ Pending(c).r = "error"
    /\ pc' = [pc EXCEPT ![c] = "failed"]
    /\ buffer' = [buffer EXCEPT ![c] = <<>>]
    /\ nread' = [nread EXCEPT ![c] = @ + 1]
    /\ UNCHANGED <<store, now, subscribers, lock, alive, out, cur, sent>>
    /\ UNCHANGED ghostVars
    /\ UNCHANGED linkVars
    /\ UNCHANGED absMap
    /\ UNCHANGED mutexVars

\* Handler::run, Command::from_frame(frame)? fails
HandleCommandError(c) ==
    /\ pc[c] = "read"
    /\ Pending(c).r = "frame"
    /\ PendingCommand(c).r = "error"
    /\ pc' = [pc EXCEPT ![c] = "failed"]
    /\ buffer' = [buffer EXCEPT ![c] = <<>>]
    /\ nread' = [nread EXCEPT ![c] = @ + 1]
    /\ UNCHANGED <<store, now, subscribers, lock, alive, out, cur, sent>>
    /\ UNCHANGED ghostVars
    /\ UNCHANGED linkVars
    /\ UNCHANGED absMap
    /\ UNCHANGED mutexVars

\* Handler::run, read_frame at end of input: Ok(None) on an empty buffer, the
\* error "connection reset by peer" on a partial frame
HandleEof(c) ==
    /\ pc[c] = "read"
    /\ Pending(c).r = "none"
    /\ ~alive[c]
    /\ pc' = [pc EXCEPT ![c] = IF buffer[c] = <<>> THEN "done" ELSE "failed"]
    /\ buffer' = [buffer EXCEPT ![c] = <<>>]
    /\ nread' = [nread EXCEPT ![c] = @ + 1]
    /\ UNCHANGED <<store, now, subscribers, lock, alive, out, cur, sent>>
    /\ UNCHANGED ghostVars
    /\ UNCHANGED linkVars
    /\ UNCHANGED absMap
    /\ UNCHANGED mutexVars

\* Handler::run for PING, ECHO, INFO, REPLCONF and unknown commands: the
\* command is applied and its answer written
HandleReply(c) ==
    /\ \E name \in {"ping", "echo", "info", "replconf", "unknown"} : Reads(c, name)
    /\ LET rep == Reply(PendingCommand(c).cmd, store, Instant_now)
       IN  /\ store' = rep.data
           /\ IF rep.r = "ok" /\ WriteOk(c)
              THEN /\ out' = Written(c, <<rep.frame>>, "reply")
                   /\ pc' = pc
                   /\ buffer' = [buffer EXCEPT ![c] = Pending(c).buffer]
              ELSE /\ out' = out
                   /\ pc' = [pc EXCEPT ![c] = "failed"]
                   /\ buffer' = [buffer EXCEPT ![c] = <<>>]
    /\ nread' = [nread EXCEPT ![c] = @ + 1]
    /\ UNCHANGED <<now, subscribers, lock, alive, cur, sent>>
    /\ UNCHANGED ghostVars
    /\ UNCHANGED linkVars
    /\ UNCHANGED absMap
    /\ IF Reads(c, "info") THEN Store_locked(c) ELSE UNCHANGED data_guard
    /\ UNCHANGED writing

\* Handler::run for GET: Get::apply reads the store and writes the answer
HandleGet(c) ==
    /\ Reads(c, "get")
    /\ LET cmd == PendingCommand(c).cmd
           g == Get_apply(cmd, store, Instant_now)
       IN  /\ store' = g.data
           /\ IF WriteOk(c)
              THEN /\ out' = Written(c, <<g.frame>>, "reply")
                   /\ pc' = pc
                   /\ buffer' = [buffer EXCEPT ![c] = Pending(c).buffer]
                   /\ lastGet' = [lastGet EXCEPT ![c] =
                                    [valid |-> TRUE, key |-> cmd.key, resp |-> g.frame,
                                     at |-> now, never |-> cmd.key \notin everSet,
                                     n |-> nread[c] + 1, pos |-> Len(out[c]) + 1,
                                     set |-> lastSet[c]]]
              ELSE /\ out' = out
                   /\ pc' = [pc EXCEPT ![c] = "failed"]
                   /\ buffer' = [buffer EXCEPT ![c] = <<>>]
                   /\ lastGet' = lastGet
    /\ nread' = [nread EXCEPT ![c] = @ + 1]
    /\ UNCHANGED <<now, subscribers, lock, alive, cur, sent>>
    /\ UNCHANGED <<lastSet, everSet, applyOrder, delivered, pub, failedWrites>>
    /\ UNCHANGED linkVars
    /\ UNCHANGED absMap
    /\ Store_locked(c)
    /\ UNCHANGED writing

\* Where the handler of a PSYNC is after Psync::apply has taken the snapshot
\* of its reply (store.as_rdb()) and before add_connection has appended the
\* connection to the registry
SnapshotTaken == {"snapshot_flush", "register"}

\* Handler::run for SET, Set::apply up to store.set: the entry is written;
\* publish(action) comes next
SetStore(c) ==
    /\ Reads(c, "set")
    /\ LET cmd == PendingCommand(c).cmd
           op == [c |-> c, n |-> nread[c] + 1, key |-> cmd.key, value |-> cmd.value]
       IN  /\ store' = Store_set(store, cmd.key, cmd.value, from_millis(Set_ttl(cmd)),
                                 Instant_now)
           /\ absMap' = Model_set(absMap, cmd.key, cmd.value, from_millis(Set_ttl(cmd)),
                                  Instant_now)
           /\ cur' = [cur EXCEPT ![c] =
                        [name |-> "set", cmd |-> cmd, op |-> op, idx |-> 0,
                         regAtSet |-> Range(subscribers),
                         syncAtSet |-> {f \in Conns : pc[f] \in SnapshotTaken}]]
           /\ lastSet' = [d \in Conns |->
                            IF d = c
                            THEN [valid |-> TRUE, key |-> cmd.key, value |-> cmd.value,
                                  expiry |-> cmd.expiry, at |-> now, n |-> nread[c] + 1,
                                  clean |-> TRUE, answered |-> FALSE]
                            ELSE IF lastSet[d].valid /\ lastSet[d].key = cmd.key
                                 THEN [lastSet[d] EXCEPT !.clean = FALSE]
                                 ELSE lastSet[d]]
           /\ everSet' = everSet \cup {cmd.key}
           /\ applyOrder' = Append(applyOrder, op)
    /\ pc' = [pc EXCEPT ![c] = "publish"]
    /\ buffer' = [buffer EXCEPT ![c] = Pending(c).buffer]
    /\ nread' = [nread EXCEPT ![c] = @ + 1]
    /\ pub' = [pub EXCEPT ![c] = NoPub]
    /\ UNCHANGED <<now, subscribers, lock, alive, out, sent>>
    /\ UNCHANGED <<lastGet, delivered, failedWrites>>
    /\ UNCHANGED linkVars
    /\ Store_locked(c)
    /\ UNCHANGED writing

\* A registry guard that is still held when the function has returned
SubscribersGuard_kept(task) == task

\* publish_frame and add_connection return, with Ok or through `?`: the
\* local `subscribers`, the guard of SUBSCRIBERS, is dropped and the
\* registry is free again
SubscribersGuard_drop(task) == NoConn

\* publish_frame: SUBSCRIBERS.lock().await; with an empty registry the loop
\* has nothing to do and the lock is released at once
PublishLock(c) ==
    /\ pc[c] = "publish"
    /\ lock = NoConn
    /\ IF subscribers = <<>>
       THEN /\ lock' = lock
            /\ pc' = [pc EXCEPT ![c] = "respond"]
            /\ cur' = cur
            /\ pub' = [pub EXCEPT ![c] =
                         [state |-> "ok", cmd |-> cur[c].cmd,
                          regAtSet |-> cur[c].regAtSet, reg |-> subscribers,
                          syncAtSet |-> cur[c].syncAtSet,
                          wrote |-> {}, failed |-> {}]]
       ELSE /\ lock' = c
            /\ pc' = [pc EXCEPT ![c] = "fanout"]
            /\ cur' = [cur EXCEPT ![c].idx = 1]
            /\ pub' = [pub EXCEPT ![c] =
                         [state |-> "running", cmd |-> cur[c].cmd,
                          regAtSet |-> cur[c].regAtSet, reg |-> subscribers,
                          syncAtSet |-> cur[c].syncAtSet,
                          wrote |-> {}, failed |-> {}]]
    /\ UNCHANGED <<store, now, subscribers, buffer, alive, out, sent, nread>>
    /\ UNCHANGED <<lastSet, lastGet, everSet, applyOrder, delivered, failedWrites>>
    /\ UNCHANGED linkVars
    /\ UNCHANGED absMap
    /\ UNCHANGED mutexVars

\* A Set::apply that goes on to its answer when publish has failed
AfterFailedPublish_respond == "respond"

\* Set::apply, publish(action).await?: the error of publish is returned, and
\* by Handler::run after it
AfterFailedPublish == "failed"

\* publish_frame, one turn of the loop: connection_lock.write_frame(&frame)
\* .await?  A failed write returns the error from publish_frame, from
\* Set::apply and from Handler::run; after the last follower the lock is
\* released and Set::apply goes on to answer
PublishWrite(c) ==
    /\ pc[c] = "fanout"
    /\ lock = c
    /\ LET f == subscribers[cur[c].idx]
       IN  IF WriteOk(f)
           THEN /\ out' = Written(f, <<publish_frame_of(cur[c].cmd)>>, "publish")
                /\ delivered' = [delivered EXCEPT ![f] = Append(@, cur[c].op)]
                /\ failedWrites' = failedWrites
                /\ IF cur[c].idx = Len(subscribers)
                   THEN /\ lock' = SubscribersGuard_drop(c)
                        /\ pc' = [pc EXCEPT ![c] = "respond"]
                        /\ cur' = cur
                        /\ pub' = [pub EXCEPT ![c].wrote = @ \cup {f}, ![c].state = "ok"]
                   ELSE /\ lock' = lock
                        /\ pc' = pc
                        /\ cur' = [cur EXCEPT ![c].idx = @ + 1]
                        /\ pub' = [pub EXCEPT ![c].wrote = @ \cup {f}]
           ELSE /\ out' = out
                /\ delivered' = delivered
                /\ failedWrites' = failedWrites \cup {f}
                /\ lock' = SubscribersGuard_drop(c)
                /\ pc' = [pc EXCEPT ![c] = AfterFailedPublish]
                /\ cur' = [cur EXCEPT ![c] = NoCmd]
                /\ pub' = [pub EXCEPT ![c].failed = @ \cup {f}, ![c].state = "failed"]
    /\ UNCHANGED <<store, now, subscribers, buffer, alive, sent, nread>>
    /\ UNCHANGED <<lastSet, lastGet, everSet, applyOrder>>
    /\ UNCHANGED linkVars
    /\ UNCHANGED absMap
    /\ UNCHANGED mutexVars

\* Set::apply, the answer on a connection the server accepted
\* (Connection::new(reader, writer, false)): dst.write_frame(&Frame::OK)
SetRespond(c) ==
    /\ pc[c] = "respond"
    /\ IF Set_reply(Set_respond(FALSE)) = <<>> \/ WriteOk(c)
       THEN /\ out' = Written(c, Set_reply(Set_respond(FALSE)), "reply")
            /\ pc' = [pc EXCEPT ![c] = "read"]
            /\ lastSet' = [lastSet EXCEPT ![c].answered = TRUE]
       ELSE /\ out' = out
            /\ pc' = [pc EXCEPT ![c] = "failed"]
            /\ lastSet' = lastSet
    /\ cur' = [cur EXCEPT ![c] = NoCmd]
    /\ UNCHANGED <<store, now, subscribers, lock, buffer, alive, sent, nread>>
    /\ UNCHANGED <<lastGet, everSet, applyOrder, delivered, pub, failedWrites>>
    /\ UNCHANGED linkVars
    /\ UNCHANGED absMap
    /\ UNCHANGED mutexVars

\* Handler::run for PSYNC: subscriber = true, then Psync::apply: a replica
\* refuses with an Error frame and returns Ok, a leader writes FULLRESYNC
\* and the snapshot
PsyncApply(c) ==
    /\ Reads(c, "psync")
    /\ LET info == Info_from_store(store, Instant_now)
           frames == IF is_replica(info) THEN <<Psync_refusal>>
                     ELSE Psync_frames(info.data)
       IN  /\ store' = info.data
           /\ IF info.r = "ok" /\ WriteOk(c)
              THEN /\ out' = Written(c, frames, "psync")
                   /\ pc' = [pc EXCEPT ![c] = "register"]
                   /\ buffer' = [buffer EXCEPT ![c] = Pending(c).buffer]
              ELSE /\ out' = out
                   /\ pc' = [pc EXCEPT ![c] = "failed"]
                   /\ buffer' = [buffer EXCEPT ![c] = <<>>]
    /\ nread' = [nread EXCEPT ![c] = @ + 1]
    /\ UNCHANGED <<now, subscribers, lock, alive, cur, sent>>
    /\ UNCHANGED ghostVars
    /\ UNCHANGED linkVars
    /\ UNCHANGED absMap
    /\ Store_locked(c)
    /\ UNCHANGED writing

\* A handler that goes back to read_frame after add_connection
AfterAddConnection_read == "read"

\* Handler::run after add_connection: break, the loop is left and the handler
\* returns
AfterAddConnection == "promoted"

\* Handler::run after a PSYNC was applied: publisher::add_connection takes the
\* registry lock, appends the connection and writes the snapshot to it; the
\* result is dropped (let _ =) and the handler breaks out of its loop
AddConnection(c) ==
    /\ pc[c] = "register"
    /\ lock = NoConn
    /\ subscribers' = Append(subscribers, c)
    /\ IF WriteOk(c)
       THEN /\ out' = Written(c, <<RdbFile(as_rdb(store))>>, "add_connection")
            /\ failedWrites' = failedWrites
       ELSE /\ out' = out
            /\ failedWrites' = failedWrites \cup {c}
    /\ pc' = [pc EXCEPT ![c] = AfterAddConnection]
    /\ UNCHANGED <<store, now, lock, buffer, alive, cur, sent, nread>>
    /\ UNCHANGED <<lastSet, lastGet, everSet, applyOrder, delivered, pub>>
    /\ UNCHANGED linkVars
    /\ UNCHANGED absMap
    /\ Store_locked(c)
    /\ UNCHANGED writing

\* A client writes two commands before it reads an answer: read_buf puts the
\* bytes of both in the buffer
SendPair(c) ==
    /\ alive[c]
    /\ pc[c] \notin Terminal
    /\ sent[c] + 2 <= MaxCmds
    /\ buffer[c] = <<>>
    /\ \E m \in PipelinePairs : buffer' = [buffer EXCEPT ![c] = m]
    /\ sent' = [sent EXCEPT ![c] = @ + 2]
    /\ UNCHANGED <<store, now, subscribers, lock, pc, alive, out, cur, nread>>
    /\ UNCHANGED ghostVars
    /\ UNCHANGED linkVars
    /\ UNCHANGED absMap
    /\ UNCHANGED mutexVars

\* A follower sends a frame on the connection its handler has handed to the
\* publisher: the bytes arrive and nothing reads them
FollowerSends(c) ==
    /\ alive[c]
    /\ c \in Range(subscribers)
    /\ sent[c] < MaxCmds
    /\ \E m \in {M_SET, M_GET} : buffer' = [buffer EXCEPT ![c] = @ \o m]
    /\ sent' = [sent EXCEPT ![c] = @ + 1]
    /\ UNCHANGED <<store, now, subscribers, lock, pc, alive, out, cur, nread>>
    /\ UNCHANGED ghostVars
    /\ UNCHANGED linkVars
    /\ UNCHANGED absMap
    /\ UNCHANGED mutexVars

\* ------------------------------------------------------------------------
\* write_frame in two steps: the frame is given to the connection and its
\* first bytes leave, the task is suspended in writer.flush(), and the rest
\* leaves when the task runs again (connection.rs, publisher.rs)
\* ------------------------------------------------------------------------

\* connection.lock().await on a registered connection: waits while another
\* task is writing on it
Connection_lock(f) == writing[f] = NoConn

\* write_frame on connection f begins: the frame is on its way and the task
\* is inside write_frame
WriteBegun(task, f, frame, by) ==
    /\ out' = Written(f, <<frame>>, by)
    /\ writing' = [writing EXCEPT ![f] = task]

\* Psync::apply on a leader, up to the flush of FULLRESYNC; on a replica, or
\* when the peer is gone, it is PsyncApply
PsyncBegin(c) ==
    /\ Reads(c, "psync")
    /\ LET info == Info_from_store(store, Instant_now)
       IN  IF info.r = "ok" /\ ~is_replica(info) /\ WriteOk(c)
           THEN /\ store' = info.data
                /\ Store_locked(c)
                /\ WriteBegun(c, c, Psync_frames(info.data)[1], "psync")
                /\ pc' = [pc EXCEPT ![c] = "psync_flush"]
                /\ buffer' = [buffer EXCEPT ![c] = Pending(c).buffer]
                /\ nread' = [nread EXCEPT ![c] = @ + 1]
                /\ UNCHANGED <<now, subscribers, lock, alive, cur, sent>>
                /\ UNCHANGED ghostVars
                /\ UNCHANGED linkVars
                /\ UNCHANGED absMap
           ELSE PsyncApply(c)

\* Psync::apply, the second write_frame: the snapshot, up to its flush
SnapshotBegin(c) ==
    /\ pc[c] = "snapshot"
    /\ Store_locked(c)
    /\ IF WriteOk(c)
       THEN /\ WriteBegun(c, c, Psync_frames(store)[2], "psync")
            /\ pc' = [pc EXCEPT ![c] = "snapshot_flush"]
       ELSE /\ UNCHANGED <<out, writing>>
            /\ pc' = [pc EXCEPT ![c] = "failed"]
    /\ UNCHANGED <<store, now, subscribers, lock, buffer, alive, cur, sent, nread>>
    /\ UNCHANGED ghostVars
    /\ UNCHANGED linkVars
    /\ UNCHANGED absMap

\* add_connection up to the flush of its snapshot: the registry lock is
\* taken and kept, the connection is pushed and locked, write_frame begins;
\* when the peer is gone it is AddConnection
AddConnectionBegin(c) ==
    /\ pc[c] = "register"
    /\ lock = NoConn
    /\ IF WriteOk(c)
       THEN /\ Connection_lock(c)
            /\ lock' = c
            /\ subscribers' = Append(subscribers, c)
            /\ Store_locked(c)
            /\ WriteBegun(c, c, RdbFile(as_rdb(store)), "add_connection")
            /\ pc' = [pc EXCEPT ![c] = "adding"]
            /\ UNCHANGED <<store, now, buffer, alive, cur, sent, nread>>
            /\ UNCHANGED ghostVars
            /\ UNCHANGED linkVars
            /\ UNCHANGED absMap
       ELSE AddConnection(c)

\* publish_frame, one turn of the loop up to the flush: the connection is
\* locked and write_frame begins; when the peer is gone it is PublishWrite
PublishWriteBegin(c) ==
    /\ pc[c] = "fanout"
    /\ lock = c
    /\ LET f == subscribers[cur[c].idx]
       IN  IF WriteOk(f)
           THEN /\ Connection_lock(f)
                /\ WriteBegun(c, f, publish_frame_of(cur[c].cmd), "publish")
                /\ delivered' = [delivered EXCEPT ![f] = Append(@, cur[c].op)]
                /\ pub' = [pub EXCEPT ![c].wrote = @ \cup {f}]
                /\ pc' = [pc EXCEPT ![c] = "fanout_flush"]
                /\ UNCHANGED <<store, now, subscribers, lock, buffer, alive, cur, sent,
                               nread, data_guard>>
                /\ UNCHANGED <<lastSet, lastGet, everSet, applyOrder, failedWrites>>
                /\ UNCHANGED linkVars
                /\ UNCHANGED absMap
           ELSE PublishWrite(c)

\* writer.flush() returns and write_frame with it: Psync::apply goes on to
\* its next frame or returns, add_connection returns and its guards are
\* dropped, publish_frame drops the connection's guard and goes on to the
\* next follower or returns
WriteFlushed(c) ==
    /\ pc[c] \in {"psync_flush", "snapshot_flush", "adding", "fanout_flush"}
    /\ writing' = [f \in Conns |-> IF writing[f] = c THEN NoConn ELSE writing[f]]
    /\ CASE pc[c] = "psync_flush" ->
              /\ pc' = [pc EXCEPT ![c] = "snapshot"]
              /\ UNCHANGED <<lock, cur, pub>>
         [] pc[c] = "snapshot_flush" ->
              /\ pc' = [pc EXCEPT ![c] = "register"]
              /\ UNCHANGED <<lock, cur, pub>>
         [] pc[c] = "adding" ->
              /\ pc' = [pc EXCEPT ![c] = AfterAddConnection]
              /\ lock' = SubscribersGuard_drop(c)
              /\ UNCHANGED <<cur, pub>>
         [] pc[c] = "fanout_flush" ->
              IF cur[c].idx = Len(subscribers)
              THEN /\ lock' = SubscribersGuard_drop(c)
                   /\ pc' = [pc EXCEPT ![c] = "respond"]
                   /\ cur' = cur
                   /\ pub' = [pub EXCEPT ![c].state = "ok"]
              ELSE /\ lock' = lock
                   /\ pc' = [pc EXCEPT ![c] = "fanout"]
                   /\ cur' = [cur EXCEPT ![c].idx = @ + 1]
                   /\ pub' = pub
    /\ UNCHANGED <<store, now, subscribers, buffer, alive, out, sent, nread, data_guard>>
    /\ UNCHANGED <<lastSet, lastGet, everSet, applyOrder, delivered, failedWrites>>
    /\ UNCHANGED linkVars
    /\ UNCHANGED absMap

\* ------------------------------------------------------------------------
\* A connection read frame by frame (connection.rs)
\* ------------------------------------------------------------------------

\* Frames of every variant, arrays in arrays included
CodecFrames ==
    {Simple(<<"h", "i">>), Error(<<"n", "o">>), Integer(12), Bulk(<<"k">>), Bulk(<<>>),
     Null, OK, Array(<<>>), Array(<<Bulk(<<"k">>), Integer(7)>>),
     Array(<<Array(<<Bulk(<<"k">>)>>)>>), RdbFile(<<"R", "D">>)}

\* Frames the peer writes at most
MaxPeerFrames == 2

\* The positions of a reader that is inside read_frame
Reading == {"reader", "ping", "port", "capa", "psync", "loop"}

\* s is the beginning of t
IsPrefix(s, t) == Len(s) <= Len(t) /\ SubSeq(t, 1, Len(s)) = s

\* The peer gives a frame to write_frame: the bytes are flushed to the
\* connection, and read back as a whole by Frame::check and Frame::parse; a
\* panic of write_value ends the peer's task and drops its connection
PeerWrite(f) ==
    /\ peerOpen
    /\ LET w == write_frame(f)
       IN  /\ trip' = [valid |-> TRUE, n |-> trip.n + 1, frame |-> f, res |-> w,
                       checked |-> IF w.r = "ok" THEN check(w.bytes, 0) ELSE w,
                       parsed |-> IF w.r = "ok" THEN parse(w.bytes, 0) ELSE w]
           /\ wire' = IF w.r = "ok" THEN wire \o w.bytes ELSE wire
           /\ peerOpen' = (w.r = "ok")
    /\ UNCHANGED <<rbuf, rpc, rsent, got, rlog>>
    /\ UNCHANGED serverVars

\* The peer writes a frame of any variant
PeerWriteAny ==
    /\ trip.n < MaxPeerFrames
    /\ \E f \in CodecFrames : PeerWrite(f)

\* The peer closes its end
PeerShut ==
    /\ peerOpen
    /\ peerOpen' = FALSE
    /\ UNCHANGED <<wire, rbuf, rpc, rsent, got, trip, rlog>>
    /\ UNCHANGED serverVars

\* read_frame, one turn of its loop: parse_frame finds no whole frame and
\* read_buf appends the k bytes that have arrived to the buffer
ReadBytes(k) ==
    /\ rpc \in Reading
    /\ parse_frame(rbuf).r = "none"
    /\ k \in 1..Len(wire)
    /\ rbuf' = rbuf \o SubSeq(wire, 1, k)
    /\ wire' = SubSeq(wire, k + 1, Len(wire))
    /\ UNCHANGED <<peerOpen, rpc, rsent, got, trip, rlog>>
    /\ UNCHANGED serverVars

\* read_buf returns any part of what has arrived
ReadMore == \E k \in 1..Len(wire) : ReadBytes(k)

\* read_buf returns all that has arrived
ReadAll == ReadBytes(Len(wire))

\* read_frame returns a frame, parse_frame has advanced the buffer, and the
\* caller calls read_frame again
ReadReturn ==
    /\ rpc = "reader"
    /\ parse_frame(rbuf).r = "frame"
    /\ got' = Append(got, parse_frame(rbuf).frame)
    /\ rbuf' = parse_frame(rbuf).buffer
    /\ UNCHANGED <<wire, peerOpen, rpc, rsent, trip, rlog>>
    /\ UNCHANGED serverVars

\* read_frame at the end of input: None on a clean end, an error when part
\* of a frame is left in the buffer
ReadEof ==
    /\ rpc = "reader"
    /\ parse_frame(rbuf).r = "none"
    /\ wire = <<>>
    /\ ~peerOpen
    /\ rpc' = IF rbuf = <<>> THEN "eof" ELSE "failed"
    /\ UNCHANGED <<wire, peerOpen, rbuf, rsent, got, trip, rlog>>
    /\ UNCHANGED serverVars

\* read_frame returns the error of parse_frame
ReadError ==
    /\ rpc = "reader"
    /\ parse_frame(rbuf).r = "error"
    /\ rpc' = "failed"
    /\ UNCHANGED <<wire, peerOpen, rbuf, rsent, got, trip, rlog>>
    /\ UNCHANGED serverVars

\* ------------------------------------------------------------------------
\* The replicator of a follower (replicator.rs)
\* ------------------------------------------------------------------------

\* ping_fame
ping_fame == Array(<<Bulk(<<"P", "I", "N", "G">>)>>)

\* listening_port_frame
listening_port_frame(info) ==
    Array(<<Bulk(<<"R", "E", "P", "L", "C", "O", "N", "F">>), Bulk(S_listening_port),
            Bulk(to_string(info.self_port))>>)

\* capability_bytes
capability_bytes ==
    Array(<<Bulk(<<"R", "E", "P", "L", "C", "O", "N", "F">>), Bulk(S_capa),
            Bulk(<<"p", "s", "y", "n", "c", "2">>)>>)

\* psync_bytes
psync_bytes == Array(<<Bulk(<<"P", "S", "Y", "N", "C">>), Bulk(<<"?">>), Bulk(<<"-", "1">>)>>)

\* hand_shake that takes any response
hand_shake_any(response, expected_response) == TRUE

\* hand_shake: ensure!(response == expected_response)
hand_shake_ok(response, expected_response) == response = expected_response

\* setup_subscriber: the Info the replicator is made with, read from the
\* store the server started with
Replicator_info ==
    Info_from_store(Info_write(Store_new, S_slave, from_millis(0)), from_millis(0))

\* run_replication, the steps of the handshake: the response it waits for at
\* each position, the frame it writes next and the position it goes to
HandShakeSteps ==
    [ping |-> [expected |-> Simple(S_PONG),
               next |-> listening_port_frame(Replicator_info), to |-> "port"],
     port |-> [expected |-> Simple(<<"O", "K">>),
               next |-> capability_bytes, to |-> "capa"],
     capa |-> [expected |-> Simple(<<"O", "K">>),
               next |-> psync_bytes, to |-> "psync"]]

\* Command::apply on the connection to the leader: the store after it and
\* the frames it writes to the leader
Replicated(cmd, data, t) ==
    CASE cmd.name = "set" ->
           [r |-> "ok",
            data |-> Store_set(data, cmd.key, cmd.value, from_millis(Set_ttl(cmd)), t),
            frames |-> Set_reply(Set_respond(TRUE))]
      [] cmd.name = "get" ->
           [r |-> "ok", data |-> Get_apply(cmd, data, t).data,
            frames |-> <<Get_apply(cmd, data, t).frame>>]
      [] cmd.name = "psync" ->
           [r |-> "ok", data |-> data, frames |-> <<Psync_refusal>>]
      [] OTHER ->
           IF Reply(cmd, data, t).r = "ok"
           THEN [r |-> "ok", data |-> Reply(cmd, data, t).data,
                 frames |-> <<Reply(cmd, data, t).frame>>]
           ELSE [r |-> "error", data |-> Reply(cmd, data, t).data, frames |-> <<>>]

\* The replicator's frames on the connection to the leader
LinkWritten(frames, by) ==
    rsent \o [i \in 1..Len(frames) |-> [f |-> frames[i], by |-> by]]

\* run_replication returns an error: the task of the replicator ends
ReplicatorFails ==
    /\ rpc' = "failed"
    /\ rlog' = [rlog EXCEPT !.nreadAtEnd = nread]

\* Replicator::run: TcpStream::connect, which may fail, and the first write
\* of the handshake
ReplicatorConnect ==
    /\ rpc = "connect"
    /\ \E connected \in BOOLEAN :
        IF connected /\ peerOpen
        THEN /\ rsent' = LinkWritten(<<ping_fame>>, "hand_shake")
             /\ rpc' = "ping"
             /\ rlog' = rlog
        ELSE /\ rsent' = rsent
             /\ ReplicatorFails
    /\ UNCHANGED <<wire, peerOpen, rbuf, got, trip>>
    /\ UNCHANGED serverVars

\* hand_shake after read_frame returned the response: the response is
\* compared with the expected one and the next frame is written
HandShakeReply ==
    /\ rpc \in DOMAIN HandShakeSteps
    /\ parse_frame(rbuf).r = "frame"
    /\ got' = Append(got, parse_frame(rbuf).frame)
    /\ rbuf' = parse_frame(rbuf).buffer
    /\ IF hand_shake_ok(parse_frame(rbuf).frame, HandShakeSteps[rpc].expected) /\ peerOpen
       THEN /\ rsent' = LinkWritten(<<HandShakeSteps[rpc].next>>, "hand_shake")
            /\ rpc' = HandShakeSteps[rpc].to
            /\ rlog' = rlog
       ELSE /\ rsent' = rsent
            /\ ReplicatorFails
    /\ UNCHANGED <<wire, peerOpen, trip>>
    /\ UNCHANGED serverVars

\* run_replication after PSYNC: any Simple frame lets it go on
PsyncReply ==
    /\ rpc = "psync"
    /\ parse_frame(rbuf).r = "frame"
    /\ got' = Append(got, parse_frame(rbuf).frame)
    /\ rbuf' = parse_frame(rbuf).buffer
    /\ IF parse_frame(rbuf).frame.t = "Simple"
       THEN /\ rpc' = "loop"
            /\ rlog' = rlog
       ELSE ReplicatorFails
    /\ UNCHANGED <<wire, peerOpen, rsent, trip>>
    /\ UNCHANGED serverVars

\* A loop that gives up on a frame that is no array
AfterDroppedFrame_bail == "failed"

\* run_replication, the arm `_ => { eprintln!("dropping rdb file ...") }`:
\* the loop goes round
AfterDroppedFrame == "loop"

\* run_replication, one turn of the loop with a frame read: an array is
\* made a command and applied, with `?` on both; any other frame is dropped.
\* The follower has no followers of its own, so publish writes nothing
ApplyLoop ==
    /\ rpc = "loop"
    /\ parse_frame(rbuf).r = "frame"
    /\ subscribers = <<>>
    /\ lock = NoConn
    /\ got' = Append(got, parse_frame(rbuf).frame)
    /\ rbuf' = parse_frame(rbuf).buffer
    /\ \E frame \in {parse_frame(rbuf).frame} :
         IF frame.t # "Array"
         THEN /\ rlog' = [rlog EXCEPT !.snapshot = @ \/ frame.t = "Bulk"]
              /\ rpc' = AfterDroppedFrame
              /\ UNCHANGED <<store, rsent, lastSet, everSet, absMap, data_guard>>
         ELSE \E command \in {from_frame(frame)} :
           IF command.r # "ok"
           THEN /\ ReplicatorFails
                /\ UNCHANGED <<store, rsent, lastSet, everSet, absMap, data_guard>>
           ELSE \E done \in {Replicated(command.cmd, store, Instant_now)} :
                /\ Store_locked("replicator")
                /\ store' = done.data
                /\ absMap' = IF command.cmd.name = "set"
                             THEN Model_set(absMap, command.cmd.key, command.cmd.value,
                                            from_millis(Set_ttl(command.cmd)), Instant_now)
                             ELSE absMap
                /\ everSet' = IF command.cmd.name = "set"
                              THEN everSet \cup {command.cmd.key} ELSE everSet
                /\ lastSet' = [d \in Conns |->
                                 IF /\ command.cmd.name = "set"
                                    /\ lastSet[d].valid
                                    /\ lastSet[d].key = command.cmd.key
                                 THEN [lastSet[d] EXCEPT !.clean = FALSE]
                                 ELSE lastSet[d]]
                /\ IF done.r = "ok" /\ (done.frames = <<>> \/ peerOpen)
                   THEN /\ rsent' = LinkWritten(done.frames, "apply")
                        /\ rpc' = rpc
                        /\ rlog' = [rlog EXCEPT !.applied =
                                       Append(@, [cmd |-> command.cmd,
                                                  snapshot |-> rlog.snapshot])]
                   ELSE /\ rsent' = rsent
                        /\ ReplicatorFails
    /\ UNCHANGED <<wire, peerOpen, trip>>
    /\ UNCHANGED <<now, subscribers, lock, pc, buffer, alive, out, cur, sent, nread>>
    /\ UNCHANGED <<lastGet, applyOrder, delivered, pub, failedWrites>>
    /\ UNCHANGED writing

\* read_frame at the end of input: hand_shake and the read after PSYNC fail
\* on None and on a reset; the loop fails on a reset only, on None it calls
\* read_frame again, which changes nothing
ReplicatorEof ==
    /\ rpc \in Reading \ {"reader"}
    /\ parse_frame(rbuf).r = "none"
    /\ wire = <<>>
    /\ ~peerOpen
    /\ rpc = "loop" => rbuf # <<>>
    /\ ReplicatorFails
    /\ UNCHANGED <<wire, peerOpen, rbuf, rsent, got, trip>>
    /\ UNCHANGED serverVars

\* read_frame returns the error of parse_frame
ReplicatorReadError ==
    /\ rpc \in Reading \ {"reader"}
    /\ parse_frame(rbuf).r = "error"
    /\ ReplicatorFails
    /\ UNCHANGED <<wire, peerOpen, rbuf, rsent, got, trip>>
    /\ UNCHANGED serverVars

\* What the leader's end of the connection may write: the expected replies,
\* other replies, a snapshot, a replicated SET, an array that is no command,
\* a PING
LeaderFrames ==
    {Simple(S_PONG), OK, Psync_frames(Store_new)[1], Simple(<<"y", "u", "p">>),
     Error(<<"n", "o">>), RdbFile(<<"R">>),
     publish_frame_of([key |-> <<"k">>, value |-> <<"v">>, expiry |-> NoInt]),
     Array(<<Bulk(<<"G", "E", "T">>)>>), ping_fame}

\* Frames the leader's end writes at most
MaxLeaderFrames == 6

\* The leader's end writes a frame once the replicator has read the one before
LeaderWrite ==
    /\ rpc \in Reading \ {"reader"}
    /\ trip.n < MaxLeaderFrames
    /\ wire = <<>>
    /\ rbuf = <<>>
    /\ \E f \in LeaderFrames : PeerWrite(f)

\* The leader's end writes bytes that are no frame
LeaderWriteMalformed ==
    /\ rpc \in Reading \ {"reader"}
    /\ trip.n < MaxLeaderFrames
    /\ wire = <<>>
    /\ rbuf = <<>>
    /\ peerOpen
    /\ \E m \in Malformed : wire' = wire \o m
    /\ trip' = [valid |-> FALSE, n |-> trip.n + 1]
    /\ UNCHANGED <<peerOpen, rbuf, rpc, rsent, got, rlog>>
    /\ UNCHANGED serverVars

\* A client of the follower asks for a key
SendGet(c) == Send(c, M_GET)

\* The leader and its replicas: c1 is a client that writes, c2 a client that
\* writes or a replica, c3 a replica; the replicas may go away
Next ==
    \/ \E c \in {"c1"} : SendSet(c)
    \/ \E c \in {"c2"} : SendOtherSet(c)
    \/ \E c \in {"c2", "c3"} : SendPsync(c)
    \/ \E c \in {"c2", "c3"} : PeerClose(c)
    \/ \E c \in Conns : HandleEof(c)
    \/ \E c \in Conns : SetStore(c)
    \/ \E c \in Conns : PublishLock(c)
    \/ \E c \in Conns : PublishWrite(c)
    \/ \E c \in Conns : SetRespond(c)
    \/ \E c \in Conns : PsyncApply(c)
    \/ \E c \in Conns : AddConnection(c)

Spec == Init /\ [][Next]_vars

\* The server and a client that also sends what is no command or no frame,
\* while a second client writes
NextClient ==
    \/ \E c \in {"c1"} : SendCommand(c)
    \/ \E c \in {"c1"} : SendUnknown(c)
    \/ \E c \in {"c1"} : SendBadCommand(c)
    \/ \E c \in {"c1"} : SendExtra(c)
    \/ \E c \in {"c1"} : SendPartial(c)
    \/ \E c \in {"c1"} : SendMalformed(c)
    \/ \E c \in {"c2"} : SendOtherSet(c)
    \/ \E c \in {"c1"} : PeerClose(c)
    \/ \E c \in Conns : HandleProtocolError(c)
    \/ \E c \in Conns : HandleCommandError(c)
    \/ \E c \in Conns : HandleEof(c)
    \/ \E c \in Conns : HandleReply(c)
    \/ \E c \in Conns : HandleGet(c)
    \/ \E c \in Conns : SetStore(c)
    \/ \E c \in Conns : PublishLock(c)
    \/ \E c \in Conns : SetRespond(c)

SpecClient == Init /\ [][NextClient]_vars

\* The store and its clients: one connection that SETs and GETs and one that
\* writes the same key, while the clock runs
NextStore ==
    \/ \E c \in {"c1"} : SendStoreCommand(c)
    \/ \E c \in {"c2"} : SendOtherSet(c)
    \/ Tick
    \/ \E c \in Conns : HandleGet(c)
    \/ \E c \in Conns : SetStore(c)
    \/ \E c \in Conns : PublishLock(c)
    \/ \E c \in Conns : SetRespond(c)

SpecStore == InitLeader /\ [][NextStore]_vars

\* A connection whose peer writes frames of every variant, read frame by
\* frame as the bytes arrive
InitCodec == InitServer(DEFAULT_ROLE) /\ InitLink("reader")

NextCodec ==
    \/ PeerWriteAny
    \/ PeerShut
    \/ ReadMore
    \/ ReadReturn
    \/ ReadEof
    \/ ReadError

SpecCodec == InitCodec /\ [][NextCodec]_vars

\* A follower: its replicator on the connection to the leader, and the
\* handler of a client that asks
InitReplica == InitAs(S_slave)

NextReplica ==
    \/ LeaderWrite
    \/ LeaderWriteMalformed
    \/ PeerShut
    \/ ReadAll
    \/ ReplicatorConnect
    \/ HandShakeReply
    \/ PsyncReply
    \/ ApplyLoop
    \/ ReplicatorEof
    \/ ReplicatorReadError
    \/ \E c \in {"c1"} : SendGet(c)
    \/ \E c \in Conns : HandleGet(c)

SpecReplica == InitReplica /\ [][NextReplica]_vars

\* A leader, a client that pipelines its commands and a follower that goes
\* on sending after its PSYNC
NextSession ==
    \/ SendPair("c1")
    \/ SendPsync("c2")
    \/ FollowerSends("c2")
    \/ \E c \in Conns : HandleReply(c)
    \/ \E c \in Conns : HandleGet(c)
    \/ \E c \in Conns : SetStore(c)
    \/ \E c \in Conns : PublishLock(c)
    \/ \E c \in Conns : PublishWrite(c)
    \/ \E c \in Conns : SetRespond(c)
    \/ \E c \in Conns : PsyncApply(c)
    \/ \E c \in Conns : AddConnection(c)

SpecSession == InitLeader /\ [][NextSession]_vars

\* A leader, clients that write and followers, one of which may go away,
\* with every write to a follower in two steps
NextWriters ==
    \/ SendSet("c1")
    \/ SendOtherSet("c3")
    \/ \E c \in {"c2", "c3"} : SendPsync(c)
    \/ FollowerSends("c2")
    \/ PeerClose("c3")
    \/ \E c \in Conns : SetStore(c)
    \/ \E c \in Conns : PublishLock(c)
    \/ \E c \in Conns : PublishWriteBegin(c)
    \/ \E c \in Conns : SetRespond(c)
    \/ \E c \in Conns : PsyncBegin(c)
    \/ \E c \in Conns : SnapshotBegin(c)
    \/ \E c \in Conns : AddConnectionBegin(c)
    \/ \E c \in Conns : WriteFlushed(c)

SpecWriters == InitLeader /\ [][NextWriters]_vars

\* ------------------------------------------------------------------------
\* Properties of the store, the publisher and the handlers
\* ------------------------------------------------------------------------

\* The frames of the entries of a connection's output that the given writers
\* wrote, in order
FramesBy(c, tags) ==
    LET es == SelectSeq(out[c], LAMBDA e : e.by \in tags)
    IN  [i \in 1..Len(es) |-> es[i].f]

\* Where an element stands in a sequence that holds it once
Pos(s, x) == CHOOSE i \in 1..Len(s) : s[i] = x

\* s is the end of t
IsSuffix(s, t) ==
    /\ Len(s) <= Len(t)
    /\ \A i \in 1..Len(s) : s[i] = t[Len(t) - Len(s) + i]

\* The publish call of the last SET of c has returned
Returned(c) == pub[c].state \in {"ok", "failed"}

\* The server runs as leader
Leader == ~is_replica(Info_from_store(store, Instant_now))

\* The last GET of c follows at once a SET of the same key on c that no other
\* connection has overwritten
FollowsOwnSet(c) ==
    /\ lastGet[c].valid
    /\ lastGet[c].set.valid
    /\ lastGet[c].set.key = lastGet[c].key
    /\ lastGet[c].set.clean

\* C1: on a connection, a SET k v without PX that no other connection
\* overwrites is answered +OK and the GET k that follows it at once is
\* answered Bulk(v); a GET of a key that was never set is answered Null.
SetThenGet ==
    \A c \in Conns :
        lastGet[c].valid =>
            /\ lastGet[c].never => out[c][lastGet[c].pos].f = Null
            /\ (/\ FollowsOwnSet(c)
                /\ lastGet[c].set.expiry = NoInt
                /\ lastGet[c].n = lastGet[c].set.n + 1)
               => /\ lastGet[c].pos > 1
                  /\ out[c][lastGet[c].pos - 1] = [f |-> OK, by |-> "reply"]
                  /\ out[c][lastGet[c].pos].f = Bulk(lastGet[c].set.value)

\* A GET that followed a SET without PX at once was answered with the value
SetThenGetSeen ==
    \E c \in Conns :
        /\ FollowsOwnSet(c)
        /\ lastGet[c].set.expiry = NoInt
        /\ lastGet[c].n = lastGet[c].set.n + 1
        /\ out[c][lastGet[c].pos - 1].f = OK
        /\ out[c][lastGet[c].pos].f = Bulk(lastGet[c].set.value)

\* C2: after SET k v PX t with no later SET of k, a GET k that the server
\* handles more than t milliseconds after the SET is answered Null, and one
\* it handles less than t milliseconds after the SET is answered Bulk(v).
ExpiryHonoured ==
    \A c \in Conns :
        (FollowsOwnSet(c) /\ lastGet[c].set.expiry # NoInt) =>
            /\ lastGet[c].at - lastGet[c].set.at > lastGet[c].set.expiry
               => out[c][lastGet[c].pos].f = Null
            /\ lastGet[c].at - lastGet[c].set.at < lastGet[c].set.expiry
               => out[c][lastGet[c].pos].f = Bulk(lastGet[c].set.value)

\* A GET came more than t milliseconds after its SET with PX t and was
\* answered Null
ExpiredGetSeen ==
    \E c \in Conns :
        /\ FollowsOwnSet(c)
        /\ lastGet[c].set.expiry # NoInt
        /\ lastGet[c].at - lastGet[c].set.at > lastGet[c].set.expiry
        /\ out[c][lastGet[c].pos].f = Null

\* C3: the frame of every SET the leader applied while followers were in the
\* registry (set, key, value, and PX with the milliseconds when the SET had
\* them) is written to each of those followers that is still connected, and
\* of two connected followers the one registered later has been written the
\* frames the other one was, in the same order, since it registered.
AllFollowersReceive ==
    /\ \A c \in Conns :
        Returned(c) =>
            \A f \in pub[c].regAtSet :
                alive[f] =>
                    /\ f \in pub[c].wrote
                    /\ \E i \in 1..Len(out[f]) :
                        out[f][i] = [f |-> publish_frame_of(pub[c].cmd), by |-> "publish"]
    /\ lock = NoConn =>
        \A i, j \in 1..Len(subscribers) :
            (i < j /\ alive[subscribers[i]] /\ alive[subscribers[j]]) =>
                IsSuffix(FramesBy(subscribers[j], {"publish"}),
                         FramesBy(subscribers[i], {"publish"}))

\* C4: the frames of the SETs of concurrent handlers are written to each
\* follower in the order in which their store.set calls took effect; hence,
\* when no publish is under way and no write failed, the last frame a
\* follower was written carries the value the store holds for its key.
BroadcastInApplyOrder ==
    /\ \A f \in Conns :
        \A i, j \in 1..Len(delivered[f]) :
            i < j => Pos(applyOrder, delivered[f][i]) < Pos(applyOrder, delivered[f][j])
    /\ (failedWrites = {} /\ \A c \in Conns : pc[c] \notin {"publish", "fanout"}) =>
        \A f \in Conns :
            delivered[f] # <<>> =>
                LET last == delivered[f][Len(delivered[f])]
                IN  /\ last.key \in DOMAIN store
                    /\ store[last.key].value = last.value

\* C5: a connection that sent PSYNC to a leader and was registered has been
\* written, by Psync::apply and add_connection together, one Simple frame
\* FULLRESYNC <replid> 0 and then one RdbFile frame, no more.
SnapshotSentOnce ==
    \A c \in Conns :
        (pc[c] = "promoted" /\ alive[c] /\ Leader) =>
            FramesBy(c, {"psync", "add_connection"}) = Psync_frames(store)

\* C6: a publish call that took the registry after add_connection appended a
\* follower writes its frame to that follower, if it is still connected, and
\* on every follower the snapshot add_connection wrote comes before every
\* published frame.
RegisteredFollowersReached ==
    /\ \A c \in Conns :
        Returned(c) =>
            \A f \in Range(pub[c].reg) : alive[f] => f \in pub[c].wrote
    /\ \A f \in Conns :
        \A i \in 1..Len(out[f]) :
            out[f][i].by = "publish" =>
                \E j \in 1..(i - 1) : out[f][j].by = "add_connection"

\* C7: when the write to one follower fails during publish, the frame is
\* still written to every other follower of the registry that is connected,
\* those after the failing one included.
FailureDoesNotAbort ==
    \A c \in Conns :
        pub[c].state = "failed" =>
            \A f \in Range(pub[c].reg) \ pub[c].failed :
                alive[f] => f \in pub[c].wrote

\* C8: a follower to which a write of add_connection or of publish failed is
\* no longer in the registry.
FailedFollowerEvicted == failedWrites \cap Range(subscribers) = {}

\* C9: when the handler of a connected peer reads a well-framed array that
\* is no command, it writes one Error frame to the peer, leaves the store as
\* it is and goes on reading.
CommandErrorAnswered ==
    [][\A c \in Conns :
        (/\ pc[c] = "read"
         /\ alive[c]
         /\ Pending(c).r = "frame"
         /\ PendingCommand(c).r = "error"
         /\ nread'[c] = nread[c] + 1)
        => /\ Len(out'[c]) = Len(out[c]) + 1
           /\ out'[c][Len(out'[c])].f.t = "Error"
           /\ store' = store
           /\ pc'[c] = "read"]_vars

\* C10: when the handler of a connected peer reads bytes that are malformed
\* framing, it writes an Error frame to the peer and goes on reading.
ProtocolErrorAnswered ==
    [][\A c \in Conns :
        (/\ pc[c] = "read"
         /\ alive[c]
         /\ Pending(c).r = "error"
         /\ nread'[c] = nread[c] + 1)
        => /\ Len(out'[c]) = Len(out[c]) + 1
           /\ out'[c][Len(out'[c])].f.t = "Error"
           /\ pc'[c] = "read"]_vars

\* The names Command::from_frame knows
KnownNames == {S_ping, S_echo, S_get, S_set, S_info, S_replconf, S_psync}

\* The frame is an array whose first element is a name from_frame does not know
NamesUnknown(frame) ==
    /\ frame.t = "Array"
    /\ Len(frame.v) > 0
    /\ frame.v[1].t \in {"Bulk", "Simple"}
    /\ to_lowercase(frame.v[1].v) \notin KnownNames

\* C11: when the handler of a connected peer reads a command whose name,
\* lower-cased, is none of ping, echo, get, set, info, replconf, psync, then
\* whatever its arguments it writes the Error frame ERR unknown command
\* '<lower-cased name>' to the peer, leaves the store and the registry as
\* they are and goes on reading.
UnknownCommandAnswered ==
    [][\A c \in Conns :
        (/\ pc[c] = "read"
         /\ alive[c]
         /\ Pending(c).r = "frame"
         /\ NamesUnknown(Pending(c).frame)
         /\ nread'[c] = nread[c] + 1)
        => /\ out'[c] = Append(out[c],
                [f |-> Error(<<"E", "R", "R", " ", "u", "n", "k", "n", "o", "w", "n", " ",
                               "c", "o", "m", "m", "a", "n", "d", " ", "'">>
                             \o to_lowercase(Pending(c).frame.v[1].v) \o <<"'">>),
                 by |-> "reply"])
           /\ store' = store
           /\ subscribers' = subscribers
           /\ pc'[c] = "read"]_vars

\* The command FoO hi k was answered ERR unknown command 'foo' and the
\* handler reads on
UnknownCommandSeen ==
    \E c \in Conns :
        /\ pc[c] = "read"
        /\ \E i \in 1..Len(out[c]) :
            out[c][i] = [f |-> Error(<<"E", "R", "R", " ", "u", "n", "k", "n", "o", "w", "n", " ",
                                       "c", "o", "m", "m", "a", "n", "d", " ", "'", "f", "o", "o", "'">>),
                         by |-> "reply"]

\* ------------------------------------------------------------------------
\* Properties of the frame codec and of read_frame
\* ------------------------------------------------------------------------

\* C12: the bytes write_frame produces for a frame of any variant but
\* RdbFile, arrays nested in arrays included, pass Frame::check and are read
\* by Frame::parse as a frame equal to the one written.
RoundTrip ==
    (trip.valid /\ trip.frame.t # "RdbFile") =>
        /\ trip.res.r = "ok"
        /\ trip.checked.r = "ok"
        /\ trip.parsed.r = "ok"
        /\ trip.parsed.frame = trip.frame

\* The buffer holds the beginning of the one frame the peer has written, of
\* a variant other than RdbFile, and nothing was taken from it
OnePrefix ==
    /\ rpc = "reader"
    /\ trip.valid
    /\ trip.n = 1
    /\ trip.res.r = "ok"
    /\ trip.frame.t # "RdbFile"
    /\ got = <<>>

\* C13: on a buffer that is the beginning of a frame's encoding, check
\* answers Incomplete exactly when part of the encoding is still missing and
\* it answered Incomplete on every shorter beginning; it never answers Ok
\* while part of the frame is missing.
CheckIncompleteOnPrefixes ==
    OnePrefix =>
        /\ check(rbuf, 0).r = "incomplete"
            <=> /\ wire # <<>>
                /\ \A k \in 0..(Len(rbuf) - 1) :
                       check(SubSeq(rbuf, 1, k), 0).r = "incomplete"
        /\ wire # <<>> => check(rbuf, 0).r # "ok"

\* One step of a reader inside read_frame: nothing is taken from the buffer
\* while check answers Incomplete; bytes are taken only with a frame returned,
\* and they are the bytes check scanned and parse consumed
TakesWholeFrames ==
    /\ check(rbuf, 0).r = "incomplete" => IsPrefix(rbuf, rbuf')
    /\ (got' # got \/ ~IsPrefix(rbuf, rbuf')) =>
        /\ check(rbuf, 0).r = "ok"
        /\ parse(rbuf, 0).r = "ok"
        /\ parse(rbuf, 0).pos = check(rbuf, 0).pos
        /\ got' = Append(got, parse(rbuf, 0).frame)
        /\ rbuf' = SubSeq(rbuf, check(rbuf, 0).pos + 1, Len(rbuf))

\* C14: read_frame takes nothing from the buffer while check answers
\* Incomplete, it only appends; it takes bytes only when it returns a frame,
\* and then the bytes check scanned, which are the bytes parse consumed.
ReadTakesWholeFrames == [][(rpc \in Reading) => TakesWholeFrames]_vars

\* read_frame has returned the first of two frames and holds the beginning
\* of the second, the rest of which has not arrived
FrameTakenRestKept ==
    /\ rpc = "reader"
    /\ Len(got) = 1
    /\ trip.n = 2
    /\ rbuf # <<>>
    /\ wire # <<>>
    /\ check(rbuf, 0).r = "incomplete"

\* ------------------------------------------------------------------------
\* Properties of the replicator
\* ------------------------------------------------------------------------

\* The frames the replicator wrote to the leader, by writer
LinkFramesBy(tags) ==
    LET es == SelectSeq(rsent, LAMBDA e : e.by \in tags)
    IN  [i \in 1..Len(es) |-> es[i].f]

\* The four frames of the handshake of a follower on port 6379
HandshakeFrames ==
    <<Array(<<Bulk(<<"P", "I", "N", "G">>)>>),
      Array(<<Bulk(<<"R", "E", "P", "L", "C", "O", "N", "F">>),
              Bulk(<<"l", "i", "s", "t", "e", "n", "i", "n", "g", "-", "p", "o", "r", "t">>),
              Bulk(<<"6", "3", "7", "9">>)>>),
      Array(<<Bulk(<<"R", "E", "P", "L", "C", "O", "N", "F">>), Bulk(<<"c", "a", "p", "a">>),
              Bulk(<<"p", "s", "y", "n", "c", "2">>)>>),
      Array(<<Bulk(<<"P", "S", "Y", "N", "C">>), Bulk(<<"?">>), Bulk(<<"-", "1">>)>>)>>

\* The replies the handshake waits for
HandshakeReplies ==
    <<Simple(<<"P", "O", "N", "G">>), Simple(<<"O", "K">>), Simple(<<"O", "K">>)>>

\* How many of the replies the handshake waits for have been read, in order
Acknowledged ==
    Cardinality({n \in 1..3 :
        /\ n <= Len(got)
        /\ \A i \in 1..n : got[i] = HandshakeReplies[i]})

\* The handshake frames written so far are the first of the four, and one
\* more than the replies read
HandshakeSoFar ==
    /\ Len(LinkFramesBy({"hand_shake"})) <= 4
    /\ LinkFramesBy({"hand_shake"}) =
           SubSeq(HandshakeFrames, 1, Len(LinkFramesBy({"hand_shake"})))
    /\ Len(LinkFramesBy({"hand_shake"})) <= 1 + Acknowledged

\* One step of the follower during and after the handshake: the frames
\* written stay in order, a reply other than the expected one and the end of
\* input end the replicator, and once it has ended it writes nothing more
\* and does not start again
HandshakeStep ==
    /\ HandshakeSoFar'
    /\ rpc = "failed" => (rpc' = "failed" /\ rsent' = rsent)
    /\ (/\ rpc \in {"ping", "port", "capa"}
        /\ got' # got
        /\ got'[Len(got')] # HandshakeReplies[Len(got')])
       => (rpc' = "failed" /\ rsent' = rsent)
    /\ (/\ rpc \in {"ping", "port", "capa", "psync"}
        /\ rbuf = <<>> /\ wire = <<>> /\ ~peerOpen
        /\ rpc' # rpc)
       => (rpc' = "failed" /\ rsent' = rsent)

\* C15: the replicator writes PING, REPLCONF listening-port <port>, REPLCONF
\* capa psync2 and PSYNC ? -1 in this order as arrays of bulks, each one only
\* after the reply +PONG, +OK, +OK to the one before; any other reply and
\* the end of input end it with an error, after which it writes nothing and
\* does not start the handshake again.
HandshakeInOrder == [][HandshakeStep]_vars

\* The four frames were written and the three replies read
HandshakeDone ==
    /\ rpc = "psync"
    /\ LinkFramesBy({"hand_shake"}) = HandshakeFrames
    /\ got = HandshakeReplies

\* C16: the replicator goes on after PSYNC ? -1 only when the reply is a
\* Simple frame that begins with FULLRESYNC.
PsyncNeedsFullresync ==
    rpc = "loop" =>
        /\ Len(got) >= 4
        /\ got[4].t = "Simple"
        /\ IsPrefix(<<"F", "U", "L", "L", "R", "E", "S", "Y", "N", "C">>, got[4].v)

\* C17: every replicated command the replicator applied, it applied after
\* it had read the snapshot bulk frame.
AppliedAfterSnapshot ==
    \A i \in 1..Len(rlog.applied) : rlog.applied[i].snapshot

\* C18: when the apply loop reads an array that is no command, the
\* replicator stays in the loop and reads on.
LoopSurvivesBadCommand ==
    [][(/\ rpc = "loop"
        /\ parse_frame(rbuf).r = "frame"
        /\ parse_frame(rbuf).frame.t = "Array"
        /\ from_frame(parse_frame(rbuf).frame).r # "ok"
        /\ got' # got)
       => rpc' = "loop"]_vars

\* The apply loop reads a SET from the leader
ReadsReplicatedSet ==
    /\ rpc = "loop"
    /\ parse_frame(rbuf).r = "frame"
    /\ parse_frame(rbuf).frame.t = "Array"
    /\ from_frame(parse_frame(rbuf).frame).r = "ok"
    /\ from_frame(parse_frame(rbuf).frame).cmd.name = "set"

\* C19: when the follower applies a SET it read from the leader, its store
\* holds the value under the key and no frame is written to the leader.
ReplicatedSetIsSilent ==
    [][(ReadsReplicatedSet /\ got' # got)
       => /\ from_frame(parse_frame(rbuf).frame).cmd.key \in DOMAIN store'
          /\ store'[from_frame(parse_frame(rbuf).frame).cmd.key].value =
                 from_frame(parse_frame(rbuf).frame).cmd.value
          /\ rsent' = rsent
          /\ rpc' = "loop"]_vars

\* A SET of the leader was applied: the store holds v under k and nothing
\* but the handshake was written to the leader
ReplicatedSetSeen ==
    /\ rpc = "loop"
    /\ \E i \in 1..Len(rlog.applied) : rlog.applied[i].cmd.name = "set"
    /\ <<"k">> \in DOMAIN store
    /\ store[<<"k">>].value = <<"v">>
    /\ LinkFramesBy({"apply"}) = <<>>
    /\ LinkFramesBy({"hand_shake"}) = HandshakeFrames

\* C20: once the replicator has ended with an error, the handlers of the
\* follower's connections are still running, a command a client sends is
\* taken up, and every command read has been answered.
ReplicatorFailureIsLocal ==
    rpc = "failed" =>
        \A c \in Conns :
            /\ pc[c] = "read"
            /\ buffer[c] # <<>> => ENABLED HandleGet(c)
            /\ Len(out[c]) = nread[c]

\* A client was answered after the replicator had ended with an error
ServedAfterFailure ==
    /\ rpc = "failed"
    /\ \E c \in Conns :
        /\ nread[c] > rlog.nreadAtEnd[c]
        /\ Len(out[c]) = nread[c]
        /\ out[c][Len(out[c])].by = "reply"

\* The connection has only been answered: no PSYNC was applied on it
ClientOnly(c) ==
    /\ pc[c] \notin {"register", "promoted"}
    /\ \A i \in 1..Len(out[c]) : out[c][i].by = "reply"

\* The frame f is an answer to the command cmd
Answers(cmd, f) ==
    CASE cmd.name = "ping" -> f = (IF cmd.has_msg THEN Bulk(cmd.msg) ELSE Simple(S_PONG))
      [] cmd.name = "echo" -> f = Bulk(cmd.msg)
      [] cmd.name = "info" -> f.t = "Bulk"
      [] cmd.name = "replconf" -> f.t \in {"Simple", "Array"}
      [] cmd.name = "unknown" -> f.t = "Error"
      [] cmd.name = "get" -> f.t \in {"Bulk", "Null"}
      [] cmd.name = "set" -> f = OK
      [] OTHER -> FALSE

\* A step of the server on connection c: the k-th read_frame that returns a
\* command is followed by the k-th frame written, and nothing else is written
AnswersInTurn(c) ==
    LET k == nread[c] + 1
    IN  /\ (/\ nread'[c] = k
            /\ ClientOnly(c)
            /\ Pending(c).r = "frame"
            /\ PendingCommand(c).r = "ok"
            /\ PendingCommand(c).cmd.name # "psync")
           => /\ Len(out[c]) = k - 1
              /\ IF PendingCommand(c).cmd.name = "set"
                 THEN out'[c] = out[c] /\ pc'[c] = "publish"
                 ELSE /\ Len(out'[c]) = k
                      /\ SubSeq(out'[c], 1, k - 1) = out[c]
                      /\ Answers(PendingCommand(c).cmd, out'[c][k].f)
                      /\ pc'[c] = "read"
        /\ (pc[c] = "respond" /\ pc'[c] # "respond")
           => /\ Len(out[c]) = nread[c] - 1
              /\ out'[c] = Append(out[c], [f |-> OK, by |-> "reply"])
              /\ Answers(cur[c].cmd, out'[c][nread[c]].f)
              /\ pc'[c] = "read"
        /\ (ClientOnly(c) /\ nread'[c] = nread[c] /\ pc[c] # "respond")
           => out'[c] = out[c]

\* C21: on a client connection the handler writes exactly one response for
\* every command frame other than PSYNC, and the k-th response answers the
\* k-th request, also when both requests were in the buffer before the first
\* was answered
OneResponsePerCommand == [][\A c \in Conns : AnswersInTurn(c)]_vars

\* Two pipelined requests, ECHO then PING, were answered in that order
PipelineAnswered ==
    /\ sent["c1"] = 2
    /\ nread["c1"] = 2
    /\ buffer["c1"] = <<>>
    /\ out["c1"] = <<[f |-> Bulk(<<"h", "i">>), by |-> "reply"],
                     [f |-> Simple(S_PONG), by |-> "reply"]>>

\* FULLRESYNC was written to connection c by Psync::apply
FullresyncWritten(c) ==
    \E i \in 1..Len(out[c]) :
        /\ out[c][i].by = "psync"
        /\ out[c][i].f = Psync_frames(store)[1]

\* The PSYNC on connection c was refused with an Error frame
PsyncRefused(c) ==
    \E i \in 1..Len(out[c]) : out[c][i].by = "psync" /\ out[c][i].f = Psync_refusal

\* C22: a connection is in the follower registry only after FULLRESYNC was
\* written to it, and a connection whose PSYNC was refused with an Error frame
\* is never in the registry
RegisteredAfterFullresync ==
    \A c \in Range(subscribers) : FullresyncWritten(c) /\ ~PsyncRefused(c)

\* A step of the server seen from connection c, which is in the registry:
\* its handler has returned and stays so, no read_frame returns on it, and
\* the bytes its peer sends stay unparsed
LeftUnread(c) ==
    /\ pc[c] \in Terminal
    /\ pc'[c] = pc[c]
    /\ nread'[c] = nread[c]
    /\ IsPrefix(buffer[c], buffer'[c])
    /\ lastSet'[c] = lastSet[c]
    /\ lastGet'[c] = lastGet[c]
    /\ buffer'[c] # buffer[c] => store' = store

\* C23: once a connection is handed to the publisher its handler has returned:
\* the server reads no further frame from it, and what the follower sends
\* later is neither parsed nor applied
NoReadAfterHandover == [][\A c \in Range(subscribers) : LeftUnread(c)]_vars

\* A follower's SET lies unread on its registered connection while a client
\* was served
FollowerFrameUnread ==
    /\ "c2" \in Range(subscribers)
    /\ buffer["c2"] = M_SET
    /\ nread["c2"] = 1
    /\ nread["c1"] = 2

\* The keys the server keeps for itself
InfoKey(k) == IsPrefix(<<"I", "N", "F", "O", ":">>, k)

\* C24: no client command overwrites a store key that starts with INFO:, so
\* the entries Info::write made at startup are still there and the role that
\* INFO reports and PSYNC checks is the role the leader started with
InfoKeysUntouched ==
    /\ \A k \in DOMAIN Info_write(Store_new, DEFAULT_ROLE, from_millis(0)) :
           InfoKey(k) => (k \in DOMAIN store
                          /\ store[k] = Info_write(Store_new, DEFAULT_ROLE, from_millis(0))[k])
    /\ Info_from_store(store, Instant_now).role = DEFAULT_ROLE

\* One week after the instant t
WeekAfter(t) == instant_add(t, from_millis(604800000))

\* C25: an entry written by set_with_default_expiry (the INFO entries, written
\* when the server starts) and an entry written by a SET without PX both
\* expire one week, 604 800 000 milliseconds, after they were written
DefaultExpiryIsOneWeek ==
    /\ \A k \in DOMAIN store :
           InfoKey(k) => store[k].expiry = WeekAfter(from_millis(0))
    /\ \A c \in Conns :
           (/\ lastSet[c].valid
            /\ lastSet[c].clean
            /\ lastSet[c].expiry = NoInt
            /\ lastSet[c].key \in DOMAIN store)
           => store[lastSet[c].key].expiry = WeekAfter(from_millis(lastSet[c].at))

\* The frame is an Array of Bulks that names a command and has n elements
Names(frame, name, n) ==
    /\ frame.t = "Array"
    /\ Len(frame.v) = n
    /\ \A i \in 1..n : frame.v[i].t = "Bulk"
    /\ to_lowercase(frame.v[1].v) = name

\* The frame is a known command followed by one element more than the
\* command has arguments
HasExtra(frame) ==
    \/ Names(frame, S_ping, 3)
    \/ Names(frame, S_echo, 3)
    \/ Names(frame, S_get, 3)
    \/ Names(frame, S_info, 3)
    \/ Names(frame, S_psync, 4)
    \/ Names(frame, S_set, 4) /\ to_uppercase(frame.v[4].v) # S_PX
    \/ Names(frame, S_set, 6) /\ to_uppercase(frame.v[4].v) = S_PX

\* The handler of c reads a command with an element too many: the command is
\* rejected and the store stays as it is
RejectsExtra(c) ==
    (/\ pc[c] = "read"
     /\ nread'[c] = nread[c] + 1
     /\ Pending(c).r = "frame"
     /\ HasExtra(Pending(c).frame))
    => /\ pc'[c] = "failed"
       /\ store' = store

\* C26: a known command whose Array has an element left after the command's
\* own arguments is rejected and changes nothing in the store; for SET that
\* covers every third argument that is not PX
TrailingArgumentRejected == [][\A c \in Conns : RejectsExtra(c)]_vars

\* A step of the handler of c whose peer has closed: read_frame returns
\* absent on an empty buffer and the handler is done; on a partial frame it
\* fails, the handler ends with the error and the store is as before
EndsAtEof(c) ==
    /\ (pc[c] = "read" /\ nread'[c] = nread[c] + 1 /\ ~alive[c] /\ buffer[c] = <<>>)
       => pc'[c] = "done"
    /\ (pc[c] = "read" /\ nread'[c] = nread[c] + 1 /\ ~alive[c]
        /\ buffer[c] \in PartialFrames)
       => (pc'[c] = "failed" /\ store' = store)
    /\ (pc[c] = "read" /\ pc'[c] = "done") => (~alive[c] /\ buffer[c] = <<>>)

\* C27: read_frame returns absent exactly when the peer has closed and the
\* buffer is empty, and fails when the peer has closed on a partial frame; in
\* both cases the handler ends and the partial frame changes no store entry
EofEndsHandler == [][\A c \in Conns : EndsAtEof(c)]_vars

\* The body of a leader's answer to INFO, with the identifier id
MasterBody(id) ==
    <<"r", "o", "l", "e", ":", "m", "a", "s", "t", "e", "r", "\r", "\n">>
    \o <<"m", "a", "s", "t", "e", "r", "_", "r", "e", "p", "l", "i", "d", ":">> \o id
    \o <<"\r", "\n">>
    \o <<"m", "a", "s", "t", "e", "r", "_", "r", "e", "p", "l", "_", "o", "f", "f", "s", "e", "t", ":", "0", "\r", "\n">>

\* The frame f answers INFO on a server whose stored role is role
InfoAnswer(role, f) ==
    /\ f.t = "Bulk"
    /\ role = <<"m", "a", "s", "t", "e", "r">>
       => /\ Len(f.v) = 91
          /\ f.v = MasterBody(SubSeq(f.v, 28, 67))
          /\ SubSeq(f.v, 28, 67) = DEFAULT_MASTER_REPLID
    /\ role = <<"s", "l", "a", "v", "e">>
       => IsPrefix(<<"r", "o", "l", "e", ":", "s", "l", "a", "v", "e">>, f.v)

\* The handler of c reads an INFO, whatever its section: the frame it writes
\* is the answer for the role the store holds
AnswersInfo(c) ==
    (Reads(c, "info") /\ nread'[c] = nread[c] + 1)
    => /\ Len(out'[c]) = Len(out[c]) + 1
       /\ InfoAnswer(store[K_ROLE].value, out'[c][Len(out'[c])].f)

Suspended(c) == pc[c] \in {"publish", "fanout", "respond", "register"}

\* C29: no task holds the Store mutex while it is suspended at a network
\* read or write: between any two steps the mutex is free, so a handler that
\* has a GET or a SET to apply can apply it whatever the other handlers wait
\* for
StoreLockNotHeldAcrossIo ==
    /\ data_guard = NoConn
    /\ \A c \in Conns : Reads(c, "get") => ENABLED HandleGet(c)
    /\ \A c \in Conns : Reads(c, "set") => ENABLED SetStore(c)

\* The second client's SET is in the store and its handler is suspended
\* before it answers, and the first client's GET has read that value
GetServedWhileSuspended ==
    /\ Suspended("c2")
    /\ nread["c2"] = 1
    /\ lastGet["c1"].valid
    /\ ~lastGet["c1"].set.valid
    /\ lastGet["c1"].resp = Bulk(<<"w">>)

\* A step of the server seen from connection f: a frame is put on it only
\* when no write_frame on it is under way, and a write_frame under way is
\* ended by nothing but its own flush
OneWriterAtATime(f) ==
    /\ out'[f] # out[f] => (writing[f] = NoConn /\ IsPrefix(out[f], out'[f]))
    /\ (writing[f] # NoConn /\ writing'[f] # writing[f])
       => (writing'[f] = NoConn /\ pc[writing[f]] # pc'[writing[f]])

\* C30: the bytes of two frames written to one connection are never
\* interleaved: whenever Psync::apply, add_connection, publish or an answer
\* puts a frame on a connection, no other write_frame on that connection is
\* between its first byte and its flush
FramesNotInterleaved == [][\A f \in Conns : OneWriterAtATime(f)]_vars

\* add_connection is suspended in the flush of its snapshot while a SET
\* handler waits to publish, and the follower has its frames whole
PromotionDuringPublish ==
    /\ pc["c2"] = "adding"
    /\ writing["c2"] = "c2"
    /\ pc["c1"] = "publish"
    /\ [i \in 1..Len(out["c2"]) |-> out["c2"][i].by] = <<"psync", "psync", "add_connection">>

\* ------------------------------------------------------------------------
\* A client's stream of commands, read as it arrives
\* ------------------------------------------------------------------------

\* The frames of client commands: arrays of bulks, each bulk with its CR LF
ClientFrames ==
    {Array(<<Bulk(<<"P", "I", "N", "G">>)>>),
     Array(<<Bulk(<<"G", "E", "T">>), Bulk(<<"k">>)>>),
     Array(<<Bulk(<<"S", "E", "T">>), Bulk(<<"k">>), Bulk(<<"v">>)>>)}

\* The client writes a command frame behind those it has written; its bytes
\* reach the server in pieces of any size (ReadMore)
ClientWrite ==
    /\ peerOpen
    /\ trip.n < MaxPeerFrames
    /\ \E f \in ClientFrames :
         /\ wire' = wire \o write_frame(f).bytes
         /\ trip' = [valid |-> TRUE, n |-> trip.n + 1, frame |-> f,
                     stream |-> IF trip.n = 0 THEN <<f>> ELSE Append(trip.stream, f)]
    /\ UNCHANGED <<peerOpen, rbuf, rpc, rsent, got, rlog>>
    /\ UNCHANGED serverVars

\* A server-side connection whose client writes command frames one behind
\* the other, read by a loop of read_frame calls
NextStream ==
    \/ ClientWrite
    \/ PeerShut
    \/ ReadMore
    \/ ReadReturn
    \/ ReadEof
    \/ ReadError

SpecStream == InitCodec /\ [][NextStream]_vars

\* ------------------------------------------------------------------------
\* Properties of the stream of commands
\* ------------------------------------------------------------------------

\* Every byte the client wrote has reached the buffer and read_frame has no
\* further frame to return
StreamRead ==
    /\ trip.valid
    /\ wire = <<>>
    /\ parse_frame(rbuf).r # "frame"

\* C31: however the bytes of a stream of CRLF-terminated command frames are
\* split into reads, a split just before the closing CR LF of a frame's last
\* bulk included, the frames read_frame returns are the frames of the
\* stream, in order: the beginning of the stream while it is being read, all
\* of it once every byte was read.
SameFramesForEverySplit ==
    /\ trip.valid => IsPrefix(got, trip.stream)
    /\ StreamRead => got = trip.stream

\* ------------------------------------------------------------------------
\* The Store under calls of set, get and del
\* ------------------------------------------------------------------------

\* The keys, values and times to live (in milliseconds) of the calls
MapKeys == {<<"k">>, <<"j">>}

MapValues == {<<"v">>, <<"w">>}

MapTtls == {1, 2}

\* store.set(key, value, ttl)
StoreSet(key, value, ms) ==
    /\ store' = Store_set(store, key, value, from_millis(ms), Instant_now)
    /\ absMap' = Model_set(absMap, key, value, from_millis(ms), Instant_now)
    /\ Store_locked("caller")

\* store.get(key): an expired entry is removed
StoreGet(key) ==
    /\ store' = Store_get(store, key, Instant_now).data
    /\ absMap' = absMap
    /\ Store_locked("caller")

\* store.del(key)
StoreDel(key) ==
    /\ store' = Store_del(store, key)
    /\ absMap' = Model_del(absMap, key)
    /\ Store_locked("caller")

\* A call on the Store: nothing but the map is touched
StoreCall ==
    /\ \/ \E key \in MapKeys, value \in MapValues, ms \in MapTtls : StoreSet(key, value, ms)
       \/ \E key \in MapKeys : StoreGet(key)
       \/ \E key \in MapKeys : StoreDel(key)
    /\ UNCHANGED <<now, subscribers, lock, alive, sent, writing>>
    /\ UNCHANGED handlerVars
    /\ UNCHANGED ghostVars
    /\ UNCHANGED linkVars

\* Any sequence of set, get and del calls on the Store while the clock runs
NextMap ==
    \/ StoreCall
    \/ Tick

SpecMap == InitLeader /\ [][NextMap]_vars

\* ------------------------------------------------------------------------
\* Properties of the Store under its calls
\* ------------------------------------------------------------------------

\* get(key) at this instant returns what the map with absolute expiry holds
SameGet(key) ==
    /\ Store_get(store, key, Instant_now).found = Model_get(absMap, key, Instant_now).found
    /\ Store_get(store, key, Instant_now).value = Model_get(absMap, key, Instant_now).value

\* C32: after any sequence of set, get and del calls, get(k) returns v
\* exactly when the last set on k was set(k, v, ttl), no del(k) came after it
\* and now < (time of that set) + ttl; an overwrite replaces the value and
\* the expiry of the entry.
StoreRefinesMap == \A key \in MapKeys \cup DOMAIN absMap : SameGet(key)

\* k was set again after the clock had moved and is live; j was set, has
\* expired and a get has removed its entry
OverwrittenAndEvicted ==
    /\ <<"k">> \in DOMAIN store
    /\ absMap[<<"k">>].at # from_millis(0)
    /\ Store_get(store, <<"k">>, Instant_now).found
    /\ ~instant_lt(Instant_now, instant_add(from_millis(0), from_millis(2)))
    /\ <<"j">> \in DOMAIN absMap
    /\ <<"j">> \notin DOMAIN store

\* The entry of key has expired at this instant
Expired(key) == ~instant_lt(Instant_now, store[key].expiry)

\* The entry of key goes in this step: by a del of the key, which the map
\* with absolute expiry forgets too, or by a get that finds the entry expired
\* and removes this one entry
RemovedByDelOrGet(key) ==
    (key \in DOMAIN store /\ key \notin DOMAIN store')
    => \/ key \in DOMAIN absMap /\ key \notin DOMAIN absMap'
       \/ /\ Expired(key)
          /\ absMap' = absMap
          /\ store' = [x \in DOMAIN store \ {key} |-> store[x]]

\* The entry of key has another value or expiry after this step: the step
\* is a set on the key at this instant
ChangedBySet(key) ==
    (key \in DOMAIN store /\ key \in DOMAIN store' /\ store'[key] # store[key])
    => /\ key \in DOMAIN absMap'
       /\ absMap'[key].at = Instant_now
       /\ absMap'[key].value = store'[key].value
       /\ store'[key].expiry = instant_add(Instant_now, absMap'[key].ttl)

\* A step that is a call on one key leaves the entries of the other keys as
\* they are, and so does the clock
OthersKept ==
    /\ \A k1, k2 \in DOMAIN store :
         (k1 # k2 /\ (k1 \notin DOMAIN store' \/ store'[k1] # store[k1]))
         => (k2 \in DOMAIN store' /\ store'[k2] = store[k2])
    /\ now' # now => store' = store

\* C33: an entry leaves the map only by del on its key or by a get on its
\* key at an instant now >= expires_at; calls on other keys leave its value
\* and expiry as they are, and no other step removes entries.
OnlyDelAndExpiredGetRemove ==
    [][/\ \A key \in DOMAIN store : RemovedByDelOrGet(key) /\ ChangedBySet(key)
       /\ OthersKept]_vars

\* The entry of j has expired and a get has removed it, while the entry of
\* k, expired as well, is still in the map
EvictedOneAtATime ==
    /\ <<"j">> \in DOMAIN absMap
    /\ <<"j">> \notin DOMAIN store
    /\ <<"k">> \in DOMAIN store
    /\ Expired(<<"k">>)

\* The last SET of connection c was answered +OK
AnsweredSet(c) == lastSet[c].valid /\ lastSet[c].answered

\* The frame of the last SET of c was written to follower f by the publisher
SentTheSet(c, f) ==
    /\ f \in pub[c].wrote
    /\ \E i \in 1..Len(delivered[f]) :
         delivered[f][i].c = c /\ delivered[f][i].n = lastSet[c].n
    /\ \E i \in 1..Len(out[f]) :
         /\ out[f][i].by = "publish"
         /\ out[f][i].f.t = "Array"
         /\ Len(out[f][i].f.v) >= 3
         /\ to_lowercase(out[f][i].f.v[1].v) = <<"s", "e", "t">>
         /\ out[f][i].f.v[2].v = lastSet[c].key
         /\ out[f][i].f.v[3].v = lastSet[c].value

\* C34: a client SET on the leader is stored, then written to every follower
\* of the registry, then answered: while it is being published it has no
\* answer yet, and once the client has its +OK the store.set has taken
\* effect and every follower that was in the registry when publish took it
\* has been written the frame of that SET.
OkAfterBroadcast ==
    \A c \in Conns :
        /\ (pc[c] \in {"publish", "fanout", "fanout_flush"} /\ lastSet[c].valid)
           => ~lastSet[c].answered
        /\ AnsweredSet(c) =>
            /\ \E i \in 1..Len(applyOrder) :
                 applyOrder[i].c = c /\ applyOrder[i].n = lastSet[c].n
            /\ pub[c].state = "ok"
            /\ \A i \in 1..Len(pub[c].reg) : SentTheSet(c, pub[c].reg[i])

\* c1 has its +OK for a SET that was published to two followers
OkAfterTwoFollowers ==
    /\ AnsweredSet("c1")
    /\ Len(pub["c1"].reg) = 2
    /\ Len(out["c1"]) > 0
    /\ out["c1"][Len(out["c1"])].f = OK

\* The header of the bulk at the head of the buffer: its length and where
\* its payload begins
BulkHeader(buf) == get_decimal(buf, 1)

\* The buffer holds a bulk header, the payload it announces and at least one
\* byte more
BulkAndMore(buf) ==
    /\ Len(buf) > 1
    /\ buf[1] = "$"
    /\ buf[2] # "-"
    /\ BulkHeader(buf).r = "ok"
    /\ Len(buf) > BulkHeader(buf).pos + BulkHeader(buf).n

\* The bytes of the buffer from index i on
From(buf, i) == SubSeq(buf, i, Len(buf))

\* read_frame returns on a buffer with a bulk and more: the frame is the
\* Bulk of the payload; the buffer then begins with the byte behind the
\* payload, or behind the CR LF that follows the payload
BulkTaken ==
    LET h == BulkHeader(rbuf)
        end == h.pos + h.n
    IN  /\ got' = Append(got, Bulk(SubSeq(rbuf, h.pos + 1, end)))
        /\ rbuf[end + 1] # CR => rbuf' = From(rbuf, end + 1)
        /\ (Len(rbuf) > end + 1 /\ rbuf[end + 1] = CR /\ rbuf[end + 2] = LF)
           => rbuf' = From(rbuf, end + 3)

\* read_frame returns the frame behind a Bulk: it is the frame the peer
\* wrote second, as Frame::parse reads it from its own bytes
NextFrameIntact ==
    (Len(got) = 1 /\ got[1].t = "Bulk" /\ trip.n = 2 /\ trip.res.r = "ok")
    => got' = Append(got, trip.parsed.frame)

\* C35: on a buffer that holds a bulk header $N, CR LF, N bytes and behind
\* them the first byte of another frame, read_frame returns the Bulk of the
\* N bytes and takes the header and the N bytes, no more, and the next
\* read_frame returns the frame that follows; when CR LF follows the N
\* bytes, the two are taken with the bulk.
BulkWithoutCrlfRead ==
    [][(rpc = "reader" /\ got' # got)
       => /\ BulkAndMore(rbuf) => BulkTaken
          /\ NextFrameIntact]_vars

\* read_frame has returned the Bulk of a payload that had no CR LF behind
\* it, and the buffer begins with the frame the peer wrote next
BulkReadFrameAhead ==
    /\ rpc = "reader"
    /\ got = <<Bulk(<<"R", "D">>)>>
    /\ trip.n = 2
    /\ trip.res.r = "ok"
    /\ rbuf # <<>>
    /\ rbuf \o wire = trip.res.bytes

\* ------------------------------------------------------------------------
\* The replicator with a leader that answers the handshake as expected
\* ------------------------------------------------------------------------

\* What the leader's end writes to a follower in its apply loop: frames of
\* every variant that is no array, the snapshot among them, and a SET
LoopFrames ==
    {Integer(5), Null, Simple(<<"y", "u", "p">>), Error(<<"n", "o">>), RdbFile(<<"R">>),
     publish_frame_of([key |-> <<"k">>, value |-> <<"v">>, expiry |-> NoInt])}

\* The leader's end answers a step of the handshake with the frame the
\* replicator waits for, and PSYNC with FULLRESYNC
LeaderAnswers ==
    /\ rpc \in DOMAIN HandShakeSteps \cup {"psync"}
    /\ trip.n < MaxLeaderFrames
    /\ trip.n = Len(got)
    /\ wire = <<>>
    /\ rbuf = <<>>
    /\ PeerWrite(IF rpc = "psync" THEN Psync_frames(Store_new)[1]
                 ELSE HandShakeSteps[rpc].expected)

\* The leader's end writes a frame to the follower in its apply loop
LeaderSends ==
    /\ rpc = "loop"
    /\ trip.n < MaxLeaderFrames
    /\ wire = <<>>
    /\ rbuf = <<>>
    /\ \E f \in LoopFrames : PeerWrite(f)

\* run_replication, one turn of the loop at the clean end of input:
\* read_buf returns 0 on an empty buffer, read_frame returns Ok(None),
\* `if let Some(frame)` does not match and the loop calls read_frame again
LoopSpins ==
    /\ rpc = "loop"
    /\ parse_frame(rbuf).r = "none"
    /\ rbuf = <<>>
    /\ wire = <<>>
    /\ ~peerOpen
    /\ rlog' = [rlog EXCEPT !.odd = ~@]
    /\ UNCHANGED <<wire, peerOpen, rbuf, rpc, rsent, got, trip>>
    /\ UNCHANGED serverVars

\* The steps of the replicator's task
ReplicatorStep ==
    \/ ReadAll
    \/ ReplicatorConnect
    \/ HandShakeReply
    \/ PsyncReply
    \/ ApplyLoop
    \/ ReplicatorEof
    \/ LoopSpins

\* A follower whose leader completes the handshake, sends frames of every
\* variant and may close the connection
NextLoop ==
    \/ LeaderAnswers
    \/ LeaderSends
    \/ PeerShut
    \/ ReplicatorStep

SpecLoop == InitReplica /\ [][NextLoop]_vars

\* The replicator's task is scheduled as long as it has a step to take
SpecLoopFair == SpecLoop /\ WF_vars(ReplicatorStep)

\* ------------------------------------------------------------------------
\* Properties of the apply loop
\* ------------------------------------------------------------------------

\* The apply loop takes a frame that is no array from its buffer
DropsFrame ==
    /\ rpc = "loop"
    /\ got' # got
    /\ parse_frame(rbuf).r = "frame"
    /\ parse_frame(rbuf).frame.t # "Array"

\* C36: a frame that is no Array (the snapshot bulk, a Simple, Error,
\* Integer or Null frame) read in the replicator's apply loop leaves the
\* follower's store as it is, has nothing written to the leader, and the
\* loop goes on to read the next frame.
NonArrayFrameDropped ==
    [][DropsFrame => /\ store' = store
                     /\ absMap' = absMap
                     /\ rsent' = rsent
                     /\ rpc' = "loop"]_vars

\* The loop has dropped an Integer or Null frame and then applied the SET
\* that came after it
SetAppliedAfterDrop ==
    /\ rpc = "loop"
    /\ Len(got) = 6
    /\ got[5].t \in {"Integer", "Null"}
    /\ got[6].t = "Array"
    /\ <<"k">> \in DOMAIN store
    /\ Len(rlog.applied) = 1

\* The publish of the last SET of c has returned Ok
Published(c) == pub[c].state = "ok"

\* C37: a SET that takes effect after Psync::apply has taken the snapshot
\* for a follower and before add_connection has appended the follower to the
\* registry is written to that follower once the follower is registered and
\* the publish of the SET has returned.
NoSetLostBeforeRegistration ==
    \A c \in Conns :
        Published(c) =>
            \A f \in pub[c].syncAtSet :
                f \in Range(subscribers) => f \in pub[c].wrote

\* The publish of the last SET of c has failed on a follower
PublishFailedOn(c) == lastSet[c].valid /\ pub[c].state = "failed"

\* C38: when the write of a SET's frame to a follower fails, the client's
\* handler goes on: the store holds the new value, the handler has not
\* returned, and it is about to answer +OK or has answered it.
SetAnsweredDespiteFollower ==
    \A c \in Conns :
        PublishFailedOn(c) =>
            /\ lastSet[c].key \in DOMAIN store
            /\ pc[c] # "failed"
            /\ pc[c] = "respond" \/ lastSet[c].answered

\* The leader has closed the connection and the replicator is in its apply
\* loop
ClosedInLoop == rpc = "loop" /\ ~peerOpen

\* C39: once the leader has closed the connection while the replicator is
\* in its apply loop, the replicator's task comes to an end: it leaves the
\* loop instead of calling read_frame on the closed stream for ever.
ReplicatorEndsAtEof == ClosedInLoop ~> (rpc # "loop")

\* ------------------------------------------------------------------------
\* The locks of the publisher (publisher.rs)
\* ------------------------------------------------------------------------

\* A leader, two clients that write and a follower that registers and may
\* go away, with every write to a follower in two steps
NextLocks ==
    \/ SendSet("c1")
    \/ SendOtherSet("c3")
    \/ SendPsync("c2")
    \/ PeerClose("c2")
    \/ \E c \in Conns : SetStore(c)
    \/ \E c \in Conns : PublishLock(c)
    \/ \E c \in Conns : PublishWriteBegin(c)
    \/ \E c \in Conns : SetRespond(c)
    \/ \E c \in Conns : PsyncBegin(c)
    \/ \E c \in Conns : SnapshotBegin(c)
    \/ \E c \in Conns : AddConnectionBegin(c)
    \/ \E c \in Conns : WriteFlushed(c)

SpecLocks == InitLeader /\ [][NextLocks]_vars

\* The writes to followers complete, a task that holds the registry goes on,
\* and the tokio Mutex hands the registry to the tasks that wait for it in
\* the order they came
SpecLocksFair ==
    /\ SpecLocks
    /\ \A c \in Conns : WF_vars(WriteFlushed(c))
    /\ \A c \in Conns : WF_vars(PublishWriteBegin(c))
    /\ \A c \in Conns : SF_vars(PublishLock(c))
    /\ \A c \in Conns : SF_vars(AddConnectionBegin(c))

\* The task of c is at SUBSCRIBERS.lock().await
AtRegistryLock(c) == pc[c] \in {"publish", "register"}

\* The task of c holds the registry and is at connection.lock().await
AtConnectionLock(c) == pc[c] = "fanout"

\* The registry is held by a task inside publish_frame or add_connection,
\* and a registered connection is written by the task that holds the registry
RegistryFirst ==
    /\ \A c \in Conns : lock = c <=> pc[c] \in {"fanout", "fanout_flush", "adding"}
    /\ \A f \in Range(subscribers) : writing[f] # NoConn => lock = writing[f]
    /\ \A f \in Conns :
          writing[f] # NoConn =>
             pc[writing[f]] \in {"psync_flush", "snapshot_flush", "adding", "fanout_flush"}

\* C40: under any interleaving of publish and add_connection calls whose
\* writes complete or fail, the registry lock is taken before a connection
\* lock, both are free again when the write has returned, also with an
\* error, and no task waits for ever for either of them.
NoTaskWaitsForever ==
    /\ []RegistryFirst
    /\ \A c \in Conns : AtRegistryLock(c) ~> ~AtRegistryLock(c)
    /\ \A c \in Conns : AtConnectionLock(c) ~> ~AtConnectionLock(c)

\* A publish call waits for the registry while another one holds it and is
\* writing to a follower
PublishWaitsForPublish ==
    \E c, d \in Conns :
        /\ c # d
        /\ pc[c] = "publish"
        /\ pc[d] = "fanout_flush"
        /\ lock = d
        /\ \E f \in Range(subscribers) : writing[f] = d

====
